---- MODULE Spec2Model ----
(***************************************************************************)
(* A model of the YIP tokenizer engine (yip.c): the byte sources, the      *)
(* Unicode decoders, and the parser runtime (cursor, token accumulator,    *)
(* backtracking frames, token delivery).                                   *)
(*                                                                         *)
(* Pointers are integers (addresses); NULL is 0.  The bytes a pointer      *)
(* refers to are found through the memory blocks of the model: the block   *)
(* holding the source's bytes (src.mem at address src.mbase) and the       *)
(* static strings of the program (encoding names, error messages).         *)
(***************************************************************************)
EXTENDS Integers, Sequences, FiniteSets, TLC

VARIABLES
    input,      \* the bytes of the underlying stream / memory range / file
    src,        \* the byte source object (YIP_SOURCE and its extensions)
    errno,      \* the C errno
    call,       \* the last source call: operation, arguments, result, state before
    pc,         \* where the caller of the library is
    yip,        \* the parser object (struct YIP)
    mach,       \* the control state of the production machine
    hist        \* what the caller has observed of the delivered token stream

vars == <<input, src, errno, call, pc, yip, mach, hist>>

(***************************************************************************)
(* Program constants.                                                      *)
(***************************************************************************)
NULL == 0
INVALID_CODE == -1000
NO_CODE == -2000
EOF == -1
DYNAMIC_BUFFER_SIZE == 8192
MAX_UTF_SIZE == 6

(***************************************************************************)
(* Bounds of the model.                                                    *)
(***************************************************************************)
MaxInput == 3

Min(a, b) == IF a <= b THEN a ELSE b

\* The element of a set of one element.  TLC evaluates a definition or an
\* argument each time it is used, and a bound variable once: an operator that
\* uses a value many times binds it as the element of a set, and its result is
\* The element of the set of results.
The(S) == CHOOSE r \in S : TRUE

\* The sequences over S of length at most n.
RECURSIVE SeqsUpTo(_, _)
SeqsUpTo(S, n) ==
    IF n = 0 THEN {<< >>}
    ELSE LET shorter == SeqsUpTo(S, n - 1)
         IN  shorter \cup {Append(q, x) : q \in {r \in shorter : Len(r) = n - 1}, x \in S}

(***************************************************************************)
(* Addresses.  The heap gives realloc two places to put a block; a memory  *)
(* range handed to yip_buffer_source and a mapping live elsewhere.         *)
(***************************************************************************)
HeapAddrs == {100000, 200000}
Addr == [mem |-> 50000, map |-> 60000, text |-> 1000]
MemAddr == Addr.mem
MapAddr == Addr.map

(***************************************************************************)
(* Results of a source operation: the source after the call, the value     *)
(* returned, the errno the call set ("" when it set none) and whether an   *)
(* assertion of the code failed (the process aborted).                     *)
(***************************************************************************)
Ret(s, ret, err) == [s |-> s, ret |-> ret, err |-> err, abort |-> FALSE]
Abort(s) == [s |-> s, ret |-> 0, err |-> "", abort |-> TRUE]

\* The bytes of the current window, read from the memory the window points into.
\* A window that no longer points into the block reads nothing defined.
WindowBytes(s) ==
    IF s.begin = NULL \/ s.begin = s.end THEN << >>
    ELSE IF s.mbase <= s.begin /\ s.end - s.mbase <= Len(s.mem)
         THEN SubSeq(s.mem, s.begin - s.mbase + 1, s.end - s.mbase)
         ELSE <<-1>>

end_offset(s) == s.byte_offset + (s.end - s.begin)

source_invariant(s) ==
    IF s.begin = NULL
    THEN s.byte_offset = 0 /\ s.end = NULL
    ELSE s.byte_offset >= 0 /\ s.end # NULL /\ s.end - s.begin >= 0

buffer_more(isnull, s, size) ==
    IF isnull \/ size < 0 THEN Ret(s, -1, "EINVAL")
    ELSE IF ~source_invariant(s) THEN Abort(s)
    ELSE Ret(s, 0, "")

\* buffer_less without the test of the size against the window.
buffer_less_unchecked(isnull, s, size) ==
    IF isnull \/ size < 0 THEN Ret(s, -1, "EINVAL")
    ELSE IF ~source_invariant(s) THEN Abort(s)
    ELSE LET s1 == [s EXCEPT !.byte_offset = @ + size, !.begin = @ + size]
         IN  IF source_invariant(s1) THEN Ret(s1, size, "") ELSE Abort(s1)

buffer_less(isnull, s, size) ==
    IF isnull \/ size < 0 THEN Ret(s, -1, "EINVAL")
    ELSE IF ~source_invariant(s) THEN Abort(s)
    ELSE IF size > s.end - s.begin THEN Ret(s, -1, "EINVAL")
    ELSE LET s1 == [s EXCEPT !.byte_offset = @ + size, !.begin = @ + size]
         IN  IF source_invariant(s1) THEN Ret(s1, size, "") ELSE Abort(s1)

buffer_close(isnull, s) ==
    IF isnull THEN Ret(s, -1, "EINVAL")
    ELSE IF ~source_invariant(s) THEN Abort(s)
    ELSE Ret([s EXCEPT !.alive = FALSE], 0, "")

NewSource(kind) ==
    [kind |-> kind, begin |-> NULL, end |-> NULL, byte_offset |-> 0,
     size |-> 0, base |-> NULL, mbase |-> NULL, mem |-> << >>, pos |-> 0,
     alive |-> TRUE]

\* yip_buffer_source(begin, end) over the bytes at address addr (NULL, NULL when
\* addr is NULL).
yip_buffer_source(bytes, addr) ==
    [NewSource("buffer") EXCEPT
        !.begin = addr,
        !.end = IF addr = NULL THEN NULL ELSE addr + Len(bytes),
        !.mbase = addr, !.mem = bytes, !.pos = Len(bytes)]

\* strlen: the number of bytes before the first zero byte.
RECURSIVE strlen(_)
strlen(bytes) ==
    IF bytes = << >> \/ Head(bytes) = 0 THEN 0 ELSE 1 + strlen(Tail(bytes))

\* yip_string_source(string) over the zero-terminated bytes at address addr.
yip_string_source(bytes, addr) ==
    [NewSource("string") EXCEPT
        !.begin = addr, !.end = addr + strlen(bytes),
        !.mbase = addr, !.mem = bytes, !.pos = Len(bytes)]

(***************************************************************************)
(* Dynamic buffered sources.                                               *)
(***************************************************************************)
dynamic_invariant(s) ==
    /\ source_invariant(s)
    /\ IF s.begin = NULL
       THEN s.base = NULL /\ s.size = 0
       ELSE s.base # NULL /\ s.base <= s.begin /\ s.size >= s.end - s.base

\* dynamic_more that allocates the size needed, not rounded up to whole buffers.
dynamic_more_exact_size(isnull, s, size, newbase) ==
    IF isnull \/ size < 0 THEN Ret(s, -1, "EINVAL")
    ELSE IF ~dynamic_invariant(s) THEN Abort(s)
    ELSE LET used_size == s.end - s.base
             need_size == used_size + size
         IN  IF need_size <= s.size THEN Ret(s, size, "")
             ELSE LET gap_size == s.begin - s.base
                      s1 == [s EXCEPT !.size = need_size,
                                      !.base = newbase]
                  IN  IF newbase = NULL THEN Ret(s1, -1, "ENOMEM")
                      ELSE LET s2 == [s1 EXCEPT !.begin = newbase + gap_size,
                                                 !.end = newbase + used_size,
                                                 !.mbase = newbase]
                           IN  IF dynamic_invariant(s2) THEN Ret(s2, size, "")
                               ELSE Abort(s2)

\* newbase is what realloc returns: the old address, another one, or NULL.
dynamic_more(isnull, s, size, newbase) ==
    IF isnull \/ size < 0 THEN Ret(s, -1, "EINVAL")
    ELSE IF ~dynamic_invariant(s) THEN Abort(s)
    ELSE LET used_size == s.end - s.base
             need_size == used_size + size
         IN  IF need_size <= s.size THEN Ret(s, size, "")
             ELSE LET gap_size == s.begin - s.base
                      need_buffers == (need_size + DYNAMIC_BUFFER_SIZE - 1) \div DYNAMIC_BUFFER_SIZE
                      s1 == [s EXCEPT !.size = need_buffers * DYNAMIC_BUFFER_SIZE,
                                      !.base = newbase]
                  IN  IF newbase = NULL THEN Ret(s1, -1, "ENOMEM")
                      ELSE LET s2 == [s1 EXCEPT !.begin = newbase + gap_size,
                                                 !.end = newbase + used_size,
                                                 !.mbase = newbase]
                           IN  IF dynamic_invariant(s2) THEN Ret(s2, size, "")
                               ELSE Abort(s2)

\* dynamic_less whose memcpy copies from the window begin as it was before the release.
dynamic_less_stale_copy(isnull, s, size) ==
    IF isnull \/ size < 0 THEN Ret(s, -1, "EINVAL")
    ELSE IF ~dynamic_invariant(s) THEN Abort(s)
    ELSE LET data_size == s.end - s.begin
         IN  IF size > data_size THEN Ret(s, -1, "EINVAL")
             ELSE LET begin1 == s.begin + size
                      data1 == data_size - size
                      s1 == [s EXCEPT !.begin = begin1, !.byte_offset = @ + size]
                      s2 == IF begin1 - s.base >= data1
                            THEN [s1 EXCEPT
                                    !.mem = SubSeq(s.mem, s.begin - s.mbase + 1,
                                                   s.begin - s.mbase + data1),
                                    !.begin = s.base,
                                    !.end = s.base + data1]
                            ELSE s1
                  IN  IF dynamic_invariant(s2) THEN Ret(s2, size, "") ELSE Abort(s2)

\* dynamic_less that measures the gap in front of the window before it releases.
dynamic_less_gap_before(isnull, s, size) ==
    IF isnull \/ size < 0 THEN Ret(s, -1, "EINVAL")
    ELSE IF ~dynamic_invariant(s) THEN Abort(s)
    ELSE LET data_size == s.end - s.begin
         IN  IF size > data_size THEN Ret(s, -1, "EINVAL")
             ELSE LET begin1 == s.begin + size
                      data1 == data_size - size
                      s1 == [s EXCEPT !.begin = begin1, !.byte_offset = @ + size]
                      s2 == IF s.begin - s.base >= data1
                            THEN [s1 EXCEPT
                                    !.mem = SubSeq(s.mem, begin1 - s.mbase + 1,
                                                   begin1 - s.mbase + data1),
                                    !.begin = s.base,
                                    !.end = s.base + data1]
                            ELSE s1
                  IN  IF dynamic_invariant(s2) THEN Ret(s2, size, "") ELSE Abort(s2)

dynamic_less(isnull, s, size) ==
    IF isnull \/ size < 0 THEN Ret(s, -1, "EINVAL")
    ELSE IF ~dynamic_invariant(s) THEN Abort(s)
    ELSE LET data_size == s.end - s.begin
         IN  IF size > data_size THEN Ret(s, -1, "EINVAL")
             ELSE LET begin1 == s.begin + size
                      data1 == data_size - size
                      s1 == [s EXCEPT !.begin = begin1, !.byte_offset = @ + size]
                      s2 == IF begin1 - s.base >= data1
                            THEN [s1 EXCEPT
                                    !.mem = SubSeq(s.mem, begin1 - s.mbase + 1,
                                                   begin1 - s.mbase + data1),
                                    !.begin = s.base,
                                    !.end = s.base + data1]
                            ELSE s1
                  IN  IF dynamic_invariant(s2) THEN Ret(s2, size, "") ELSE Abort(s2)

\* The bytes a read of k bytes appends at the window end.
ReadInto(s, k) ==
    [s EXCEPT !.mem = SubSeq(s.mem, 1, s.end - s.mbase) \o SubSeq(input, s.pos + 1, s.pos + k),
              !.end = @ + k,
              !.pos = @ + k]

\* fp_more that reads the bytes but does not move the window end.
fp_more_keeps_end(isnull, s, size, newbase, rd) ==
    LET d == dynamic_more(isnull, s, size, newbase)
    IN  IF d.abort THEN d
        ELSE IF d.ret < 0 THEN Ret(d.s, -1, d.err)
        ELSE Ret([d.s EXCEPT !.pos = @ + rd], rd, "")

\* rd is what fread returns: the bytes read (it never returns a negative value).
fp_more(isnull, s, size, newbase, rd) ==
    LET d == dynamic_more(isnull, s, size, newbase)
    IN  IF d.abort THEN d
        ELSE IF d.ret < 0 THEN Ret(d.s, -1, d.err)
        ELSE IF ~dynamic_invariant(d.s) THEN Abort(d.s)
        ELSE IF rd < 0 THEN Ret(d.s, -1, "EIO")
        ELSE LET s1 == ReadInto(d.s, rd)
             IN  IF dynamic_invariant(s1) THEN Ret(s1, rd, "") ELSE Abort(s1)

\* rd is what read returns: the bytes read, or -1.
fd_read_more(isnull, s, size, newbase, rd) ==
    LET d == dynamic_more(isnull, s, size, newbase)
    IN  IF d.abort THEN d
        ELSE IF d.ret < 0 THEN Ret(d.s, -1, d.err)
        ELSE IF ~dynamic_invariant(d.s) THEN Abort(d.s)
        ELSE IF rd < 0 THEN Ret(d.s, -1, "EIO")
        ELSE LET s1 == ReadInto(d.s, rd)
             IN  IF dynamic_invariant(s1) THEN Ret(s1, rd, "") ELSE Abort(s1)

fp_close(isnull, s) ==
    IF isnull THEN Ret(s, -1, "EINVAL")
    ELSE IF ~dynamic_invariant(s) THEN Abort(s)
    ELSE Ret([s EXCEPT !.alive = FALSE], 0, "")

fd_read_close(isnull, s) ==
    IF isnull THEN Ret(s, -1, "EINVAL")
    ELSE IF ~dynamic_invariant(s) THEN Abort(s)
    ELSE Ret([s EXCEPT !.alive = FALSE], 0, "")

fd_mmap_close(isnull, s) ==
    IF isnull THEN Ret(s, -1, "EINVAL")
    ELSE IF ~source_invariant(s) THEN Abort(s)
    ELSE Ret([s EXCEPT !.alive = FALSE], 0, "")

yip_fp_source == NewSource("fp")
yip_fd_read_source == NewSource("fd_read")

\* yip_fd_map_source over a file holding bytes, mapped at addr.
yip_fd_map_source(bytes, addr) ==
    [NewSource("fd_mmap") EXCEPT
        !.begin = addr, !.end = addr + Len(bytes),
        !.mbase = addr, !.mem = bytes, !.pos = Len(bytes)]

(***************************************************************************)
(* The method table of a source: source->more, source->less, source->close.*)
(***************************************************************************)
IsDynamic(s) == s.kind \in {"fp", "fd_read"}

source_more(isnull, s, size, newbase, rd) ==
    CASE s.kind = "fp" -> fp_more(isnull, s, size, newbase, rd)
      [] s.kind = "fd_read" -> fd_read_more(isnull, s, size, newbase, rd)
      [] OTHER -> buffer_more(isnull, s, size)

source_less(isnull, s, size) ==
    IF IsDynamic(s) THEN dynamic_less(isnull, s, size) ELSE buffer_less(isnull, s, size)

source_close(isnull, s) ==
    CASE s.kind = "fp" -> fp_close(isnull, s)
      [] s.kind = "fd_read" -> fd_read_close(isnull, s)
      [] s.kind = "fd_mmap" -> fd_mmap_close(isnull, s)
      [] OTHER -> buffer_close(isnull, s)

(***************************************************************************)
(* What the environment may answer to a more(size) call on source s.       *)
(* realloc returns the old address, another heap address, or NULL; fread   *)
(* returns all the bytes asked for unless the stream ends or fails; read   *)
(* may return fewer, and -1 when it fails.                                 *)
(***************************************************************************)
Remaining(s) == Len(input) - s.pos

\* realloc is called only when the request does not fit the capacity.
ReallocOutcomes(s, size) ==
    IF ~IsDynamic(s) \/ size < 0 \/ (s.end - s.base) + size <= s.size THEN {s.base}
    ELSE IF s.base = NULL THEN {100000, NULL}
    ELSE {s.base, NULL} \cup HeapAddrs

\* The bytes that more(size) asks the stream for (what dynamic_more returns).
ReadOutcomes(s, size) ==
    LET most == Min(size, Remaining(s))
    IN  CASE s.kind = "fp" -> 0 .. most
          [] s.kind = "fd_read" -> {-1} \cup (IF most = 0 THEN {0} ELSE 1 .. most)
          [] OTHER -> {0}

\* The read failed (fread stopped short of both the request and the end of the
\* stream; read returned -1).
ReadFailed(s, size, rd) ==
    CASE s.kind = "fp" -> rd < Min(size, Remaining(s))
      [] s.kind = "fd_read" -> rd < 0
      [] OTHER -> FALSE


(***************************************************************************)
(* Encodings, token codes and code types (yip.h).  A token code is the     *)
(* character the YEAST format writes for it.                               *)
(***************************************************************************)
YIP_UTF8 == 0
YIP_UTF16LE == 1
YIP_UTF16BE == 2
YIP_UTF32LE == 3
YIP_UTF32BE == 4

YIP_FAKE == 0
YIP_BEGIN == 1
YIP_END == 2
YIP_MATCH == 3

YIP_BEGIN_ESCAPE == 69
YIP_BEGIN_NODE == 78
YIP_BOM == 85
YIP_DONE == 0
YIP_END_ESCAPE == 101
YIP_END_NODE == 110
YIP_ERROR == 33
YIP_TEXT == 84
YIP_UNPARSED == 45

RETURN_ERROR == -1
RETURN_DONE == 0
RETURN_TOKEN == 1

START_OF_LINE_MASK == 1

\* The Begin code and the End code of each group: R r, A a, C c, D d, O o, E e,
\* H h, M m, N n, X x, P p, S s, Q q, G g.
CodePairs ==
    {<<82, 114>>, <<65, 97>>, <<67, 99>>, <<68, 100>>, <<79, 111>>, <<69, 101>>,
     <<72, 104>>, <<77, 109>>, <<78, 110>>, <<88, 120>>, <<80, 112>>, <<83, 115>>,
     <<81, 113>>, <<71, 103>>}

\* BREAK b, DOCUMENT_END k, DOCUMENT_START K, INDENT i, INDICATOR I,
\* LINE_FEED L, LINE_FOLD l, META t, TEXT T, UNPARSED -, WHITE w.
MatchCodes == {98, 107, 75, 105, 73, 76, 108, 116, 84, 45, 119}

\* BOM U, COMMENT #, DONE \0, ERROR !.
FakeCodes == {85, 35, 0, 33}

yip_code_type(code) ==
    IF \E p \in CodePairs : p[1] = code THEN YIP_BEGIN
    ELSE IF \E p \in CodePairs : p[2] = code THEN YIP_END
    ELSE IF code \in MatchCodes THEN YIP_MATCH
    ELSE IF code \in FakeCodes THEN YIP_FAKE
    ELSE -1

yip_code_pair(code) ==
    IF \E p \in CodePairs : p[1] = code
    THEN (CHOOSE p \in CodePairs : p[1] = code)[2]
    ELSE IF \E p \in CodePairs : p[2] = code
    THEN (CHOOSE p \in CodePairs : p[2] = code)[1]
    ELSE -1

(***************************************************************************)
(* The static strings of the program and where they are.                   *)
(***************************************************************************)
encoding_names ==
    << <<85, 84, 70, 45, 56>>,                   \* "UTF-8"
       <<85, 84, 70, 45, 49, 54, 76, 69>>,       \* "UTF-16LE"
       <<85, 84, 70, 45, 49, 54, 66, 69>>,       \* "UTF-16BE"
       <<85, 84, 70, 45, 51, 50, 76, 69>>,       \* "UTF-32LE"
       <<85, 84, 70, 45, 51, 50, 66, 69>> >>     \* "UTF-32BE"

Text == [invalid |-> 1100, eoi |-> 1150, quote |-> 1200, buffer |-> 1250]

\* The address of encoding_names[encoding].
EncodingNameAddr(encoding) == Addr.text + 16 * encoding

InvalidByteSequence ==
    <<73, 110, 118, 97, 108, 105, 100, 32, 98, 121, 116, 101, 32, 115, 101, 113,
      117, 101, 110, 99, 101>>
UnexpectedEndOfInput ==
    <<85, 110, 101, 120, 112, 101, 99, 116, 101, 100, 32, 101, 110, 100, 32, 111,
      102, 32, 105, 110, 112, 117, 116>>
UnexpectedQuote == <<85, 110, 101, 120, 112, 101, 99, 116, 101, 100, 32, 34, 39, 34>>
UnexpectedPrefix == <<85, 110, 101, 120, 112, 101, 99, 116, 101, 100, 32, 39>>

\* The static strings as blocks of memory; buffer is what the static buffer of
\* unexpected() holds at the moment.
StaticBlocks(buffer) ==
    {[addr |-> EncodingNameAddr(e), bytes |-> encoding_names[e + 1]] : e \in 0 .. 4}
    \cup {[addr |-> Text.invalid, bytes |-> InvalidByteSequence],
          [addr |-> Text.eoi, bytes |-> UnexpectedEndOfInput],
          [addr |-> Text.quote, bytes |-> UnexpectedQuote],
          [addr |-> Text.buffer, bytes |-> buffer]}

\* The zero-terminated string at a static address (without its terminator).
CString(buffer, addr) ==
    LET blocks == {b \in StaticBlocks(buffer) :
                      b.addr <= addr /\ addr <= b.addr + Len(b.bytes)}
    IN  IF blocks = {} THEN <<-1>>
        ELSE LET b == CHOOSE b \in blocks : TRUE
             IN  SubSeq(b.bytes, addr - b.addr + 1, Len(b.bytes))

\* Lower-case hexadecimal digits of n, at least width of them (printf %0<width>x).
RECURSIVE Hex(_, _)
Hex(n, width) ==
    LET digit == <<48, 49, 50, 51, 52, 53, 54, 55, 56, 57, 97, 98, 99, 100, 101, 102>>[(n % 16) + 1]
    IN  IF n < 16 /\ width <= 1 THEN <<digit>>
        ELSE Append(Hex(n \div 16, width - 1), digit)

\* The digits printf %0<width>x gives for an int: a negative int prints as the
\* unsigned value of its 32 bits.
HexUnsigned(n, width) ==
    IF n >= 0 THEN Hex(n, width)
    ELSE Hex((n \div 16777216) + 256, 2) \o Hex(n % 16777216, 6)

(***************************************************************************)
(* The decoders.  A decoder is given the bytes from *begin to end and      *)
(* returns the code and the number of bytes it advanced *begin by.         *)
(***************************************************************************)
Decoded(code, size) == [code |-> code, size |-> size]

\* The C int whose top byte is high and whose low 24 bits are low: a top byte
\* of 128 or more wraps to a negative value.
Int32(high, low) == (IF high >= 128 THEN high - 256 ELSE high) * 16777216 + low

\* The continuation bytes of a UTF8 character: i is the index of the next byte.
RECURSIVE utf8_continuations(_, _, _, _)
utf8_continuations(b, i, code, continuations) ==
    IF continuations = 0 THEN Decoded(code, i - 1)
    ELSE IF i > Len(b) THEN Decoded(INVALID_CODE, i - 1)
    ELSE IF b[i] \div 64 # 2 THEN Decoded(INVALID_CODE, i)
    ELSE utf8_continuations(b, i + 1, code * 64 + (b[i] % 64), continuations - 1)

\* yip_decode_utf8 had it refused over-long encodings of two bytes.
yip_decode_utf8_rejects_overlong(b) ==
    IF Len(b) = 0 THEN Decoded(INVALID_CODE, 0)
    ELSE LET code == b[1]
         IN  IF code < 128 THEN Decoded(code, 1)
             ELSE IF code \div 32 = 6
             THEN IF code < 194 THEN Decoded(INVALID_CODE, 1)
                  ELSE utf8_continuations(b, 2, code % 32, 1)
             ELSE IF code \div 16 = 14 THEN utf8_continuations(b, 2, code % 16, 2)
             ELSE IF code \div 8 = 30 THEN utf8_continuations(b, 2, code % 8, 3)
             ELSE IF code \div 4 = 62 THEN utf8_continuations(b, 2, code % 4, 4)
             ELSE IF code \div 2 = 126 THEN utf8_continuations(b, 2, code % 2, 5)
             ELSE Decoded(INVALID_CODE, 1)

yip_decode_utf8(b) ==
    IF Len(b) = 0 THEN Decoded(INVALID_CODE, 0)
    ELSE LET code == b[1]
         IN  IF code < 128 THEN Decoded(code, 1)
             ELSE IF code \div 32 = 6 THEN utf8_continuations(b, 2, code % 32, 1)
             ELSE IF code \div 16 = 14 THEN utf8_continuations(b, 2, code % 16, 2)
             ELSE IF code \div 8 = 30 THEN utf8_continuations(b, 2, code % 8, 3)
             ELSE IF code \div 4 = 62 THEN utf8_continuations(b, 2, code % 4, 4)
             ELSE IF code \div 2 = 126 THEN utf8_continuations(b, 2, code % 2, 5)
             ELSE Decoded(INVALID_CODE, 1)

\* Two bytes as a UTF16 unit, little endian or big endian.
LittleEndian16(x, y) == x + y * 256
BigEndian16(x, y) == x * 256 + y

\* decode_utf16 had it returned a high surrogate at the end of the bytes as a
\* character.
decode_utf16_lone_high(b, little) ==
    IF Len(b) < 2 THEN Decoded(INVALID_CODE, Len(b))
    ELSE LET unit(x, y) == IF little THEN LittleEndian16(x, y) ELSE BigEndian16(x, y)
             code01 == unit(b[1], b[2])
         IN  IF 56320 <= code01 /\ code01 < 57344 THEN Decoded(INVALID_CODE, 2)
             ELSE IF code01 < 55296 \/ 56320 <= code01 THEN Decoded(code01, 2)
             ELSE IF Len(b) < 4 THEN Decoded(code01, 2)
             ELSE LET code23 == unit(b[3], b[4])
                  IN  IF code23 < 56320 \/ 57344 <= code23 THEN Decoded(INVALID_CODE, 4)
                      ELSE Decoded((code01 * 1024) + code23 + 65536
                                       - (55296 * 1024) - 56320, 4)

\* Both UTF16 decoders: little says how two bytes combine into a unit.
decode_utf16(b, little) ==
    IF Len(b) < 2 THEN Decoded(INVALID_CODE, Len(b))
    ELSE LET unit(x, y) == IF little THEN LittleEndian16(x, y) ELSE BigEndian16(x, y)
             code01 == unit(b[1], b[2])
         IN  IF 56320 <= code01 /\ code01 < 57344 THEN Decoded(INVALID_CODE, 2)
             ELSE IF code01 < 55296 \/ 56320 <= code01 THEN Decoded(code01, 2)
             ELSE IF Len(b) < 4 THEN Decoded(INVALID_CODE, Len(b))
             ELSE LET code23 == unit(b[3], b[4])
                  IN  IF code23 < 56320 \/ 57344 <= code23 THEN Decoded(INVALID_CODE, 4)
                      ELSE Decoded((code01 * 1024) + code23 + 65536
                                       - (55296 * 1024) - 56320, 4)

yip_decode_utf16le(b) == decode_utf16(b, TRUE)
yip_decode_utf16be(b) == decode_utf16(b, FALSE)

\* yip_decode_utf32le had it left *begin alone when fewer than 4 bytes remain.
yip_decode_utf32le_rewinds(b) ==
    IF Len(b) < 4 THEN Decoded(INVALID_CODE, 0)
    ELSE Decoded(Int32(b[4], b[1] + b[2] * 256 + b[3] * 65536), 4)

yip_decode_utf32le(b) ==
    IF Len(b) < 4 THEN Decoded(INVALID_CODE, Len(b))
    ELSE Decoded(Int32(b[4], b[1] + b[2] * 256 + b[3] * 65536), 4)

yip_decode_utf32be(b) ==
    IF Len(b) < 4 THEN Decoded(INVALID_CODE, Len(b))
    ELSE Decoded(Int32(b[1], b[2] * 65536 + b[3] * 256 + b[4]), 4)

yip_decode(encoding, bytes) ==
    The({CASE encoding = YIP_UTF8 -> yip_decode_utf8(b)
           [] encoding = YIP_UTF16LE -> yip_decode_utf16le(b)
           [] encoding = YIP_UTF16BE -> yip_decode_utf16be(b)
           [] encoding = YIP_UTF32LE -> yip_decode_utf32le(b)
           [] encoding = YIP_UTF32BE -> yip_decode_utf32be(b)
           [] OTHER -> Decoded(INVALID_CODE, 0)
         : b \in {bytes}})

\* The widths in bits that unsigned long has in a build of the library.
LongBits == {32, 64}

\* The encoding the first bytes w of the window show, in a build whose unsigned
\* long has long_bits bits.  byte_0 << 24 is an int: with byte_0 of 0x80 or more
\* it is negative, and as an unsigned long of 64 bits it is not below 2^32, so
\* that byte_0123 is not 0xFFFE0000.
DetectedEncoding(w, long_bits) ==
    LET byte(i) == IF Len(w) > i THEN w[i + 1] ELSE 170
        byte_01 == <<byte(0), byte(1)>>
        byte_012 == <<byte(0), byte(1), byte(2)>>
        byte_123 == <<byte(1), byte(2), byte(3)>>
        byte_0123 == <<byte(0), byte(1), byte(2), byte(3)>>
        sign_extended == long_bits > 32 /\ byte(0) >= 128
    IN  IF byte_0123 = <<0, 0, 254, 255>> THEN YIP_UTF32BE
        ELSE IF byte_012 = <<0, 0, 0>> THEN YIP_UTF32BE
        ELSE IF byte_0123 = <<255, 254, 0, 0>> /\ ~sign_extended THEN YIP_UTF32LE
        ELSE IF byte_123 = <<0, 0, 0>> THEN YIP_UTF32LE
        ELSE IF byte_01 = <<254, 255>> THEN YIP_UTF16BE
        ELSE IF byte(0) = 0 THEN YIP_UTF16BE
        ELSE IF byte_01 = <<255, 254>> THEN YIP_UTF16LE
        ELSE IF byte(1) = 0 THEN YIP_UTF16BE
        ELSE IF byte_012 = <<239, 187, 191>> THEN YIP_UTF8
        ELSE YIP_UTF8

\* detect_encoding: more is the result of source->more(source, 4).
detect_encoding(more, long_bits) ==
    The({IF r.abort \/ r.ret < 0 THEN [r EXCEPT !.ret = -1]
         ELSE The({[r EXCEPT !.ret = DetectedEncoding(w, long_bits)] : w \in {WindowBytes(r.s)}})
         : r \in {more}})

\* code_mask of classify.i: a negative code has the empty mask; any other code
\* has the bits of its character classes, none of which is bit 0.
code_mask(code) == IF code < 0 THEN 0 ELSE 2

(***************************************************************************)
(* The parser object.  A stack is the sequence of its elements from begin  *)
(* to top; a stack that was never initialized is the empty sequence.       *)
(* A token is a YIP_TOKEN, a character a CHAR, a frame a FRAME.            *)
(***************************************************************************)
NoToken ==
    [begin |-> NULL, end |-> NULL, byte_offset |-> 0, char_offset |-> 0,
     line |-> 0, line_char |-> 0, encoding |-> 0, code |-> 0]

\* The parser as calloc returns it.
NoYip ==
    [codes |-> << >>, tokens |-> << >>, frames |-> << >>,
     machine |-> FALSE, source |-> FALSE, encoding |-> 0, to_close |-> FALSE,
     did_see_eof |-> FALSE, next_return_token |-> 0, buffer |-> << >>,
     alive |-> FALSE]

size_of(buffer) == buffer.end - buffer.begin
depth_of(stack) == Len(stack)
stack_pop(stack) == SubSeq(stack, 1, Len(stack) - 1)

Code(y) == y.codes[Len(y.codes)]
Token(y) == y.tokens[Len(y.tokens)]
Frame(y) == y.frames[Len(y.frames)]
Curr_char(y) == Frame(y).curr
Prev_char(y) == Frame(y).prev
Curr(y) == Frame(y).curr.token
Prev(y) == Frame(y).prev.token

SetToken(y, token) == [y EXCEPT !.tokens[Len(y.tokens)] = token]
SetFrame(y, frame) == [y EXCEPT !.frames[Len(y.frames)] = frame]

\* *Token = *Curr; Token->buffer->end = Token->buffer->begin; Token->code = code.
TokenAtCurr(y, code) == [Curr(y) EXCEPT !.end = Curr(y).begin, !.code = code]

\* The bytes between two pointers: in the block of the source, in a static
\* string, or nowhere defined.
BytesAt(y, s, begin, end) ==
    IF begin = end THEN << >>
    ELSE IF s.mbase # NULL /\ s.mbase <= begin /\ end - s.mbase <= Len(s.mem)
    THEN SubSeq(s.mem, begin - s.mbase + 1, end - s.mbase)
    ELSE LET text == CString(y.buffer, begin)
         IN  IF begin < end /\ end - begin <= Len(text) THEN SubSeq(text, 1, end - begin)
             ELSE <<-1>>

(***************************************************************************)
(* Results of a parser operation: the parser and the source after it, the  *)
(* value returned, the errno a source call in it set ("" when none did),   *)
(* and the assertion that failed ("" when none did).                       *)
(***************************************************************************)
Done(y, s, ret) == [y |-> y, s |-> s, ret |-> ret, err |-> "", abort |-> ""]
Failed(y, s, assertion) == [y |-> y, s |-> s, ret |-> 0, err |-> "", abort |-> assertion]

(***************************************************************************)
(* The invariants the code asserts.                                        *)
(***************************************************************************)
token_char_invariant(y, s, token) ==
    /\ token.byte_offset >= 0
    /\ token.code # NO_CODE =>
          token.char_offset >= 0 /\ token.line >= 1 /\ token.line_char >= 0
    /\ token.byte_offset <= s.byte_offset + size_of(s)
    /\ token.char_offset <= token.byte_offset
    /\ token.begin # NULL
    /\ (token.begin = Curr(y).begin /\ token.code # NO_CODE) =>
          /\ token.byte_offset = Curr(y).byte_offset
          /\ token.char_offset = Curr(y).char_offset
          /\ token.line = Curr(y).line
          /\ token.line_char = Curr(y).line_char
          /\ (size_of(token) = 0 \/ token.end = Curr(y).end)
          /\ token.encoding = y.encoding

\* The part of token_invariant and char_invariant that ties a token to the window.
InWindow(y, s, token) ==
    /\ token.byte_offset + size_of(token) <= s.byte_offset + size_of(s)
    /\ token.encoding = y.encoding
    /\ token.begin >= s.begin
    /\ token.end <= s.end
    /\ token.byte_offset - s.byte_offset = token.begin - s.begin

token_invariant(y, s, token) ==
    /\ token_char_invariant(y, s, token)
    /\ size_of(token) # 0 => (32 < token.code /\ token.code <= 126)
    /\ yip_code_type(token.code) # YIP_FAKE => InWindow(y, s, token)

char_invariant(y, s, token) ==
    /\ token_char_invariant(y, s, token)
    /\ IF size_of(token) = 0 THEN token.code = NO_CODE \/ token.code = EOF
       ELSE (token.code >= 0 \/ token.code = INVALID_CODE) /\ InWindow(y, s, token)

\* frame_invariant without the assertions on the saved depths.
frame_invariant_without_depths(y, s, i) ==
    LET frame == y.frames[i]
        curr == frame.curr.token
        prev == frame.prev.token
    IN  /\ char_invariant(y, s, curr)
        /\ char_invariant(y, s, prev)
        /\ curr.begin = prev.begin =>
              IF size_of(curr) = 0 THEN size_of(prev) = 0
              ELSE size_of(prev) # 0 => frame.curr = frame.prev

\* frame_invariant of the frame at depth i of the frame stack.
frame_invariant(y, s, i) ==
    LET frame == y.frames[i]
        curr == frame.curr.token
        prev == frame.prev.token
    IN  /\ char_invariant(y, s, curr)
        /\ char_invariant(y, s, prev)
        /\ curr.begin = prev.begin =>
              IF size_of(curr) = 0 THEN size_of(prev) = 0
              ELSE size_of(prev) # 0 => frame.curr = frame.prev
        /\ IF i = Len(y.frames)
           THEN frame.tokens_depth = -1 /\ frame.codes_depth = -1
           ELSE /\ frame.tokens_depth > 0
                /\ frame.codes_depth > 0
                /\ frame.tokens_depth <= depth_of(y.tokens)
                /\ frame.codes_depth <= depth_of(y.codes)

\* The first assertion group of yip_invariant that fails, "" when none does.
yip_invariant_failure(parser, source) ==
    The({IF ~y.source \/ ~y.machine THEN "yip_invariant"
         ELSE IF ~source_invariant(s) THEN "source_invariant"
         ELSE IF y.codes = << >> \/ y.tokens = << >> \/ y.frames = << >> THEN "stack_invariant"
         ELSE IF \E i \in 1 .. Len(y.tokens) : ~token_invariant(y, s, y.tokens[i])
         THEN "token_invariant"
         ELSE IF \E i \in 1 .. Len(y.frames) : ~frame_invariant(y, s, i)
         THEN "frame_invariant"
         ELSE IF ~(/\ yip_code_type(Token(y).code) # YIP_FAKE => Token(y).end = Curr(y).begin
                   /\ y.next_return_token <= depth_of(y.tokens)
                   /\ (\/ y.next_return_token >= 0
                       \/ Token(y).code = YIP_UNPARSED
                       \/ Token(y).code = Code(y)))
         THEN "yip_invariant"
         ELSE ""
         : y \in {parser}, s \in {source}})

yip_invariant(y, s) == yip_invariant_failure(y, s) = ""

\* An operation that asserts yip_invariant, then its own conditions, then runs.
Asserting(y, s, conditions, name, body) ==
    The({IF failure # "" THEN Failed(y, s, failure)
         ELSE IF ~conditions THEN Failed(y, s, name)
         ELSE body
         : failure \in {yip_invariant_failure(y, s)}})

\* The yip_invariant an operation asserts before it returns.
Returning(parser, source, ret) ==
    The({The({IF failure = "" THEN Done(y, s, ret) ELSE Failed(y, s, failure)
              : failure \in {yip_invariant_failure(y, s)}})
         : y \in {parser}, s \in {source}})

(***************************************************************************)
(* Rebasing: before and after are the window before and after the more.    *)
(***************************************************************************)
rebase_invariant(before, after) ==
    /\ before.begin # after.begin
    /\ before.begin # NULL /\ before.end # NULL
    /\ after.begin # NULL /\ after.end # NULL
    /\ before.begin < before.end
    /\ after.begin < after.end
    /\ size_of(after) > size_of(before)

rebase_pointer(old_pointer, before, after) == after.begin + (old_pointer - before.begin)

\* The assertions of rebase_pointer.
rebase_pointer_asserts(old_pointer, before, after) ==
    /\ old_pointer # NULL
    /\ rebase_pointer(old_pointer, before, after) # NULL
    /\ before.begin <= old_pointer /\ old_pointer <= before.end
    /\ after.begin <= rebase_pointer(old_pointer, before, after)
    /\ rebase_pointer(old_pointer, before, after) <= after.end

rebase_token(token, before, after) ==
    [token EXCEPT !.begin = rebase_pointer(token.begin, before, after),
                  !.end = rebase_pointer(token.end, before, after)]

rebase_token_asserts(token, before, after) ==
    /\ rebase_pointer_asserts(token.begin, before, after)
    /\ rebase_pointer_asserts(token.end, before, after)

rebase_frame(frame, before, after) ==
    [frame EXCEPT !.curr.token = rebase_token(@, before, after),
                  !.prev.token = rebase_token(@, before, after)]

rebase_frame_asserts(frame, before, after) ==
    /\ rebase_token_asserts(frame.curr.token, before, after)
    /\ rebase_token_asserts(frame.prev.token, before, after)

\* The rebase part of next_char, when the window begin has changed.
Rebase(parser, s, before, after) ==
    The({IF ~rebase_invariant(before, after) THEN Failed(y, s, "rebase_invariant")
         ELSE IF \/ \E i \in 1 .. Len(y.tokens) :
                       ~rebase_token_asserts(y.tokens[i], before, after)
                 \/ \E i \in 1 .. Len(y.frames) :
                       ~rebase_frame_asserts(y.frames[i], before, after)
         THEN Failed(y, s, "rebase_pointer")
         ELSE Done([y EXCEPT
                       !.tokens = [i \in 1 .. Len(y.tokens) |->
                                      rebase_token(y.tokens[i], before, after)],
                       !.frames = [i \in 1 .. Len(y.frames) |->
                                      rebase_frame(y.frames[i], before, after)]],
                   s, 0)
         : y \in {parser}})

(***************************************************************************)
(* The cursor.                                                             *)
(***************************************************************************)
\* DecodedChar that takes one byte for an invalid byte sequence.
DecodedChar_takes_one_byte(y, s, d) ==
    LET curr == Curr(y)
        curr1 == IF curr.begin = s.end THEN [curr EXCEPT !.code = EOF]
                 ELSE [curr EXCEPT !.code = d.code,
                                   !.end = curr.begin + (IF d.code = INVALID_CODE THEN 1 ELSE d.size)]
        mask == code_mask(curr1.code)
        mask1 == IF (Prev(y).code < 0 \/ Prev(y).code = 65535)
                    /\ Prev_char(y).mask % 2 = START_OF_LINE_MASK
                 THEN mask + START_OF_LINE_MASK - (mask % 2)
                 ELSE mask
    IN  [token |-> curr1, mask |-> mask1]

\* DecodedChar that passes the start of line on after NO_CODE, EOF and 0xFFFF
\* only.
DecodedChar_after_sentinel_only(y, s, d) ==
    LET curr == Curr(y)
        curr1 == IF curr.begin = s.end THEN [curr EXCEPT !.code = EOF]
                 ELSE [curr EXCEPT !.code = d.code, !.end = curr.begin + d.size]
        mask == code_mask(curr1.code)
        mask1 == IF Prev(y).code \in {NO_CODE, EOF, 65535}
                    /\ Prev_char(y).mask % 2 = START_OF_LINE_MASK
                 THEN mask + START_OF_LINE_MASK - (mask % 2)
                 ELSE mask
    IN  [token |-> curr1, mask |-> mask1]

\* The character at the cursor and its mask, given what yip_decode returns.
DecodedChar(y, s, d) ==
    LET curr == Curr(y)
        curr1 == IF curr.begin = s.end THEN [curr EXCEPT !.code = EOF]
                 ELSE [curr EXCEPT !.code = d.code, !.end = curr.begin + d.size]
        mask == code_mask(curr1.code)
        mask1 == IF (Prev(y).code < 0 \/ Prev(y).code = 65535)
                    /\ Prev_char(y).mask % 2 = START_OF_LINE_MASK
                 THEN mask + START_OF_LINE_MASK - (mask % 2)
                 ELSE mask
    IN  [token |-> curr1, mask |-> mask1]

\* The end of next_char: decode the character at the cursor.
DecodeCurr(parser, source) ==
    The({The({IF Prev(y1).code # NO_CODE THEN Returning(y1, s, 0) ELSE Done(y1, s, 0)
              : y1 \in {[SetFrame(y, [Frame(y) EXCEPT !.curr =
                             The({DecodedChar(y, s, d)
                                  : d \in {yip_decode(y.encoding,
                                              BytesAt(y, s, Curr(y).begin, s.end))}})])
                            EXCEPT !.did_see_eof = @ \/ Curr(y).begin = s.end]}})
         : y \in {parser}, s \in {source}})

\* MoveCurr that goes on when the source fails to give more.
MoveCurr_ignores_failure(y, s, newbase, rd) ==
    LET curr1 == [Curr(y) EXCEPT !.byte_offset = @ + size_of(Curr(y)),
                                 !.char_offset = @ + 1,
                                 !.line_char = @ + 1,
                                 !.begin = Curr(y).end]
        y1 == SetFrame(y, [Frame(y) EXCEPT !.prev = Curr_char(y), !.curr.token = curr1])
    IN  The({IF m.abort THEN Failed(y2, m.s, "dynamic_invariant")
             ELSE IF s.begin # m.s.begin
             THEN The({IF r.abort # "" THEN r
                       ELSE [DecodeCurr(r.y, r.s) EXCEPT !.err = m.err]
                       : r \in {Rebase(y2, m.s, s, m.s)}})
             ELSE [DecodeCurr(y2, m.s) EXCEPT !.err = m.err]
             : y2 \in {SetToken(y1, [Token(y1) EXCEPT !.end = curr1.begin])},
               m \in {IF ~y.did_see_eof /\ curr1.byte_offset + MAX_UTF_SIZE > end_offset(s)
                      THEN source_more(FALSE, s, DYNAMIC_BUFFER_SIZE, newbase, rd)
                      ELSE Ret(s, 0, "")}})

\* MoveCurr that leaves the end of the token where it is.
MoveCurr_keeps_token_end(y, s, newbase, rd) ==
    LET curr1 == [Curr(y) EXCEPT !.byte_offset = @ + size_of(Curr(y)),
                                 !.char_offset = @ + 1,
                                 !.line_char = @ + 1,
                                 !.begin = Curr(y).end]
    IN  The({IF m.abort THEN Failed(y2, m.s, "dynamic_invariant")
             ELSE IF m.ret < 0 THEN [Done(y2, m.s, -1) EXCEPT !.err = m.err]
             ELSE IF s.begin # m.s.begin
             THEN The({IF r.abort # "" THEN r ELSE DecodeCurr(r.y, r.s)
                       : r \in {Rebase(y2, m.s, s, m.s)}})
             ELSE DecodeCurr(y2, m.s)
             : y2 \in {SetFrame(y, [Frame(y) EXCEPT !.prev = Curr_char(y),
                                                     !.curr.token = curr1])},
               m \in {IF ~y.did_see_eof /\ curr1.byte_offset + MAX_UTF_SIZE > end_offset(s)
                      THEN source_more(FALSE, s, DYNAMIC_BUFFER_SIZE, newbase, rd)
                      ELSE Ret(s, 0, "")}})

\* MoveCurr that releases the bytes of the character it leaves behind before it
\* asks the source for more.
MoveCurr_releases_consumed(y, s, newbase, rd) ==
    LET curr1 == [Curr(y) EXCEPT !.byte_offset = @ + size_of(Curr(y)),
                                 !.char_offset = @ + 1,
                                 !.line_char = @ + 1,
                                 !.begin = Curr(y).end]
        y1 == SetFrame(y, [Frame(y) EXCEPT !.prev = Curr_char(y), !.curr.token = curr1])
        released == source_less(FALSE, s, size_of(Curr(y))).s
    IN  The({IF m.abort THEN Failed(y2, m.s, "dynamic_invariant")
             ELSE IF m.ret < 0 THEN [Done(y2, m.s, -1) EXCEPT !.err = m.err]
             ELSE IF s.begin # m.s.begin
             THEN The({IF r.abort # "" THEN r ELSE DecodeCurr(r.y, r.s)
                       : r \in {Rebase(y2, m.s, s, m.s)}})
             ELSE DecodeCurr(y2, m.s)
             : y2 \in {SetToken(y1, [Token(y1) EXCEPT !.end = curr1.begin])},
               m \in {IF ~y.did_see_eof /\ curr1.byte_offset + MAX_UTF_SIZE > end_offset(s)
                      THEN source_more(FALSE, released, DYNAMIC_BUFFER_SIZE, newbase, rd)
                      ELSE Ret(released, 0, "")}})

\* The part of next_char after its assertions: the cursor moves, the source
\* gives more, the parser is rebased, the character is decoded.
MoveCurr(y, s, newbase, rd) ==
    LET curr1 == [Curr(y) EXCEPT !.byte_offset = @ + size_of(Curr(y)),
                                 !.char_offset = @ + 1,
                                 !.line_char = @ + 1,
                                 !.begin = Curr(y).end]
        y1 == SetFrame(y, [Frame(y) EXCEPT !.prev = Curr_char(y), !.curr.token = curr1])
    IN  The({IF m.abort THEN Failed(y2, m.s, "dynamic_invariant")
             ELSE IF m.ret < 0 THEN [Done(y2, m.s, -1) EXCEPT !.err = m.err]
             ELSE IF s.begin # m.s.begin
             THEN The({IF r.abort # "" THEN r ELSE DecodeCurr(r.y, r.s)
                       : r \in {Rebase(y2, m.s, s, m.s)}})
             ELSE DecodeCurr(y2, m.s)
             : y2 \in {SetToken(y1, [Token(y1) EXCEPT !.end = curr1.begin])},
               m \in {IF ~y.did_see_eof /\ curr1.byte_offset + MAX_UTF_SIZE > end_offset(s)
                      THEN source_more(FALSE, s, DYNAMIC_BUFFER_SIZE, newbase, rd)
                      ELSE Ret(s, 0, "")}})

\* next_char; newbase and rd are what realloc and the read return if the
\* source is asked for more.
next_char(parser, source, newbase, rd) ==
    The({IF Curr(y).code # NO_CODE /\ ~yip_invariant(y, s)
         THEN Failed(y, s, yip_invariant_failure(y, s))
         ELSE IF Curr(y).code = EOF THEN Done(y, s, 0)
         ELSE IF ~(/\ Token(y).end = Curr(y).begin
                   /\ (Token(y).code # NO_CODE \/ Curr(y).code = NO_CODE))
         THEN Failed(y, s, "next_char")
         ELSE MoveCurr(y, s, newbase, rd)
         : y \in {parser}, s \in {source}})

next_line(y) ==
    SetFrame(y, [Frame(y) EXCEPT
        !.curr.mask = @ + START_OF_LINE_MASK - (@ % 2),
        !.curr.token.line_char = 0,
        !.curr.token.line = @ + 1])

(***************************************************************************)
(* The token accumulator.                                                  *)
(***************************************************************************)
begin_token(y, s, code) ==
    Asserting(y, s,
        y.next_return_token < 0 /\ (yip_code_type(code) = YIP_MATCH \/ code = YIP_BOM),
        "begin_token",
        LET y1 == [y EXCEPT !.codes = Append(@, code)]
        IN  IF size_of(Token(y1)) = 0
            THEN Returning(SetToken(y1, [Token(y1) EXCEPT !.code = code]), s, RETURN_DONE)
            ELSE IF depth_of(y1.frames) = 1
            THEN IF depth_of(y1.tokens) # 1 THEN Failed(y1, s, "begin_token")
                 ELSE Returning([y1 EXCEPT !.next_return_token = 0], s, RETURN_TOKEN)
            ELSE Done([y1 EXCEPT !.tokens = Append(@, TokenAtCurr(y1, code))], s, RETURN_DONE))

\* BomToken had it pointed at the first character of the name.
BomToken_whole_name(token) ==
    LET begin == EncodingNameAddr(token.encoding)
    IN  [token EXCEPT !.begin = begin,
                      !.end = begin + Len(CString(<< >>, begin)),
                      !.encoding = YIP_UTF8]

\* The payload and encoding end_token gives a BOM token.
BomToken(token) ==
    LET begin == EncodingNameAddr(token.encoding) + 1
    IN  [token EXCEPT !.begin = begin,
                      !.end = begin + Len(CString(<< >>, begin)),
                      !.encoding = YIP_UTF8]

\* end_token that stages the token it ends whatever the depth of the frame
\* stack.
end_token_stages_in_frame(y, s, code) ==
    Asserting(y, s,
        /\ y.next_return_token < 0
        /\ (code = Token(y).code \/ code = YIP_UNPARSED)
        /\ (depth_of(y.codes) = 1 => Code(y) = YIP_UNPARSED),
        "end_token",
        LET y1 == IF depth_of(y.codes) = 1 THEN y ELSE [y EXCEPT !.codes = stack_pop(@)]
        IN  IF size_of(Token(y1)) = 0
            THEN Returning(SetToken(y1, [Token(y1) EXCEPT !.code = Code(y1)]), s, RETURN_DONE)
            ELSE LET token == [Token(y1) EXCEPT !.code = code]
                     y2 == SetToken(y1, IF code = YIP_BOM THEN BomToken(token) ELSE token)
                 IN  Done([y2 EXCEPT !.next_return_token = 0], s, RETURN_TOKEN))

end_token(y, s, code) ==
    Asserting(y, s,
        /\ y.next_return_token < 0
        /\ (code = Token(y).code \/ code = YIP_UNPARSED)
        /\ (depth_of(y.codes) = 1 => Code(y) = YIP_UNPARSED),
        "end_token",
        LET y1 == IF depth_of(y.codes) = 1 THEN y ELSE [y EXCEPT !.codes = stack_pop(@)]
        IN  IF size_of(Token(y1)) = 0
            THEN Returning(SetToken(y1, [Token(y1) EXCEPT !.code = Code(y1)]), s, RETURN_DONE)
            ELSE LET token == [Token(y1) EXCEPT !.code = code]
                     y2 == SetToken(y1, IF code = YIP_BOM THEN BomToken(token) ELSE token)
                 IN  IF depth_of(y2.frames) = 1
                     THEN IF depth_of(y2.tokens) # 1 THEN Failed(y2, s, "end_token")
                          ELSE Returning([y2 EXCEPT !.next_return_token = 0], s, RETURN_TOKEN)
                     ELSE Returning([y2 EXCEPT !.tokens = Append(@, TokenAtCurr(y2, Code(y2)))],
                                    s, RETURN_DONE))

\* The body of fake_token.
FakeToken(y, s, code, text) ==
    Asserting(y, s,
        /\ y.next_return_token < 0
        /\ IF text # NULL THEN yip_code_type(code) = YIP_FAKE
           ELSE code = YIP_DONE \/ yip_code_type(code) \in {YIP_BEGIN, YIP_END},
        "fake_token",
        LET y1 == IF size_of(Token(y)) # 0
                  THEN [y EXCEPT !.tokens = Append(@, TokenAtCurr(y, Curr(y).code))]
                  ELSE y
            token == [Token(y1) EXCEPT !.code = code]
            y2 == SetToken(y1,
                     IF text # NULL
                     THEN [token EXCEPT !.begin = text,
                                        !.end = text + Len(CString(y.buffer, text))]
                     ELSE token)
        IN  IF depth_of(y2.frames) = 1
            THEN IF depth_of(y2.tokens) > 2 THEN Failed(y2, s, "fake_token")
                 ELSE Returning([y2 EXCEPT !.next_return_token = 0], s, RETURN_TOKEN)
            ELSE Returning([y2 EXCEPT !.tokens = Append(@, TokenAtCurr(y2, Code(y2)))],
                           s, RETURN_DONE))

\* text is the address of the text, or NULL.
fake_token(parser, s, code, text) ==
    The({FakeToken(y, s, code, text) : y \in {parser}})

empty_token(y, s, code) == fake_token(y, s, code, NULL)

\* What unexpected() prints into its static buffer for a character code.
UnexpectedText(code) ==
    UnexpectedPrefix \o
    (IF 32 <= code /\ code <= 126 THEN <<code>>
     ELSE IF code <= 255 THEN <<92, 120>> \o HexUnsigned(code, 2)
     ELSE IF code <= 65535 THEN <<92, 117>> \o Hex(code, 4)
     ELSE <<92, 85>> \o Hex(code, 8))
    \o <<39>>

unexpected(y, s) ==
    IF Curr(y).code = INVALID_CODE THEN fake_token(y, s, YIP_ERROR, Text.invalid)
    ELSE IF Curr(y).code = EOF THEN fake_token(y, s, YIP_ERROR, Text.eoi)
    ELSE IF Curr(y).code = 39 THEN fake_token(y, s, YIP_ERROR, Text.quote)
    ELSE fake_token([y EXCEPT !.buffer = UnexpectedText(Curr(y).code)], s,
                    YIP_ERROR, Text.buffer)

(***************************************************************************)
(* The backtracking frame stack.                                           *)
(***************************************************************************)
push_state(y, s) ==
    Asserting(y, s, size_of(Token(y)) = 0 /\ Token(y).code = YIP_UNPARSED, "push_state",
        LET below == [Frame(y) EXCEPT !.tokens_depth = depth_of(y.tokens),
                                      !.codes_depth = depth_of(y.codes)]
        IN  Returning([y EXCEPT !.frames = Append(SetFrame(y, below).frames, Frame(y))],
                      s, 0))

\* set_state that records the depths and leaves the saved characters alone.
set_state_keeps_saved_cursor(y, s) ==
    Asserting(y, s,
        depth_of(y.frames) > 1 /\ size_of(Token(y)) = 0 /\ Token(y).code = YIP_UNPARSED,
        "set_state",
        LET F == Len(y.frames)
            y1 == [y EXCEPT !.frames[F - 1].codes_depth = depth_of(y.codes)]
        IN  IF depth_of(y1.frames) > 1 \/ depth_of(y1.tokens) = 1
            THEN Returning([y1 EXCEPT !.frames[F - 1].tokens_depth = depth_of(y1.tokens)],
                           s, RETURN_DONE)
            ELSE Returning([y1 EXCEPT !.frames[F - 1].tokens_depth = 1,
                                      !.tokens = stack_pop(@),
                                      !.next_return_token = 0],
                           s, RETURN_TOKEN))

set_state(y, s) ==
    Asserting(y, s,
        depth_of(y.frames) > 1 /\ size_of(Token(y)) = 0 /\ Token(y).code = YIP_UNPARSED,
        "set_state",
        LET F == Len(y.frames)
            y1 == [y EXCEPT !.frames[F - 1] =
                      [Frame(y) EXCEPT !.codes_depth = depth_of(y.codes)]]
        IN  IF depth_of(y1.frames) > 1 \/ depth_of(y1.tokens) = 1
            THEN Returning([y1 EXCEPT !.frames[F - 1].tokens_depth = depth_of(y1.tokens)],
                           s, RETURN_DONE)
            ELSE Returning([y1 EXCEPT !.frames[F - 1].tokens_depth = 1,
                                      !.tokens = stack_pop(@),
                                      !.next_return_token = 0],
                           s, RETURN_TOKEN))

\* reset_state that leaves the code stack as deep as it is.
reset_state_keeps_codes(y, s) ==
    Asserting(y, s,
        size_of(Token(y)) = 0 /\ Token(y).code = YIP_UNPARSED /\ depth_of(y.frames) > 1,
        "reset_state",
        LET F == Len(y.frames)
            frame == y.frames[F - 1]
            y1 == [y EXCEPT !.frames[F] = frame,
                            !.tokens = SubSeq(@, 1, frame.tokens_depth)]
            y2 == SetToken(y1, TokenAtCurr(y1, Code(y1)))
        IN  Returning(SetFrame(y2, [Frame(y2) EXCEPT !.tokens_depth = -1, !.codes_depth = -1]),
                      s, 0))

\* reset_state that leaves the cursor where it is.
reset_state_keeps_cursor(y, s) ==
    Asserting(y, s,
        size_of(Token(y)) = 0 /\ Token(y).code = YIP_UNPARSED /\ depth_of(y.frames) > 1,
        "reset_state",
        LET F == Len(y.frames)
            frame == y.frames[F - 1]
            y1 == [y EXCEPT !.codes = SubSeq(@, 1, frame.codes_depth),
                            !.tokens = SubSeq(@, 1, frame.tokens_depth)]
            y2 == SetToken(y1, TokenAtCurr(y1, Code(y1)))
        IN  Returning(SetFrame(y2, [Frame(y2) EXCEPT !.tokens_depth = -1, !.codes_depth = -1]),
                      s, 0))

\* reset_state that leaves the token stack as deep as it is.
reset_state_keeps_tokens(y, s) ==
    Asserting(y, s,
        size_of(Token(y)) = 0 /\ Token(y).code = YIP_UNPARSED /\ depth_of(y.frames) > 1,
        "reset_state",
        LET F == Len(y.frames)
            frame == y.frames[F - 1]
            y1 == [y EXCEPT !.frames[F] = frame,
                            !.codes = SubSeq(@, 1, frame.codes_depth)]
            y2 == SetToken(y1, TokenAtCurr(y1, Code(y1)))
        IN  Returning(SetFrame(y2, [Frame(y2) EXCEPT !.tokens_depth = -1, !.codes_depth = -1]),
                      s, 0))

reset_state(y, s) ==
    Asserting(y, s,
        size_of(Token(y)) = 0 /\ Token(y).code = YIP_UNPARSED /\ depth_of(y.frames) > 1,
        "reset_state",
        LET F == Len(y.frames)
            frame == y.frames[F - 1]
            y1 == [y EXCEPT !.frames[F] = frame,
                            !.codes = SubSeq(@, 1, frame.codes_depth),
                            !.tokens = SubSeq(@, 1, frame.tokens_depth)]
            y2 == SetToken(y1, TokenAtCurr(y1, Code(y1)))
        IN  Returning(SetFrame(y2, [Frame(y2) EXCEPT !.tokens_depth = -1, !.codes_depth = -1]),
                      s, 0))

pop_state(y, s) ==
    Asserting(y, s,
        size_of(Token(y)) = 0 /\ Token(y).code = YIP_UNPARSED /\ depth_of(y.frames) > 1,
        "pop_state",
        LET F == Len(y.frames)
            y1 == [y EXCEPT !.frames = Append(SubSeq(@, 1, F - 2),
                                [Frame(y) EXCEPT !.tokens_depth = -1, !.codes_depth = -1])]
        IN  IF depth_of(y1.frames) > 1 \/ depth_of(y1.tokens) = 1
            THEN Returning(y1, s, RETURN_DONE)
            ELSE Returning([y1 EXCEPT !.tokens = stack_pop(@), !.next_return_token = 0],
                           s, RETURN_TOKEN))

is_same_state(y) == Curr(y).begin = y.frames[Len(y.frames) - 1].curr.token.begin

(***************************************************************************)
(* Construction, release and delivery.                                     *)
(***************************************************************************)
\* yip_close had it closed the source whether or not the parser owns it.
yip_close_closes_borrowed(parser, source) ==
    The({The({IF failure # "" THEN Failed(y, s, failure)
              ELSE The({IF c.abort THEN Failed([y EXCEPT !.alive = FALSE], c.s,
                                               "dynamic_invariant")
                        ELSE [Done([y EXCEPT !.alive = FALSE], c.s, c.ret)
                                 EXCEPT !.err = c.err]
                        : c \in {source_close(FALSE, s)}})
              : failure \in {yip_invariant_failure(y, s)}})
         : y \in {parser}, s \in {source}})

\* yip_close: ret is what it returns.
yip_close(parser, source) ==
    The({The({IF failure # "" THEN Failed(y, s, failure)
              ELSE IF y.to_close
              THEN The({IF c.abort THEN Failed([y EXCEPT !.alive = FALSE], c.s,
                                               "dynamic_invariant")
                        ELSE [Done([y EXCEPT !.alive = FALSE], c.s, c.ret)
                                 EXCEPT !.err = c.err]
                        : c \in {source_close(FALSE, s)}})
              ELSE Done([y EXCEPT !.alive = FALSE], s, 0)
              : failure \in {yip_invariant_failure(y, s)}})
         : y \in {parser}, s \in {source}})

\* What yip_init returns when it gives up after a source call set errno to err:
\* NULL (ret 0) once yip_close is done.
GiveUp(y, s, err) ==
    The({IF c.abort # "" THEN [c EXCEPT !.err = err]
         ELSE [Done(c.y, c.s, 0) EXCEPT !.err = IF c.err # "" THEN c.err ELSE err]
         : c \in {yip_close(y, s)}})

\* The parser as yip_init sets it up over the window of source s, before the
\* first character is read.
FirstParser(y, s, encoding) ==
    LET curr == [begin |-> s.begin, end |-> s.begin, byte_offset |-> 0,
                 char_offset |-> -1, line |-> 1, line_char |-> -1,
                 encoding |-> encoding, code |-> NO_CODE]
        char == [token |-> curr, mask |-> START_OF_LINE_MASK]
    IN  [y EXCEPT
           !.encoding = encoding,
           !.codes = <<YIP_UNPARSED>>,
           !.frames = <<[prev |-> char, curr |-> char,
                         tokens_depth |-> -1, codes_depth |-> -1]>>,
           !.tokens = <<curr>>]

\* The parser from the second detect_encoding (result d, encoding d.ret) on.
InitParser(y, d, newbase, rd) ==
    IF d.ret < 0 THEN GiveUp([y EXCEPT !.encoding = d.ret], d.s, d.err)
    ELSE The({IF n.abort # "" THEN n
              ELSE IF n.ret < 0 THEN GiveUp(n.y, n.s, n.err)
              ELSE Returning(SetToken(n.y, TokenAtCurr(n.y, YIP_UNPARSED)), n.s, 1)
              : n \in {next_char(FirstParser(y, d.s, d.ret), d.s, newbase, rd)}})

\* The parser yip_init has allocated and filled in, before the second
\* detect_encoding.
NewParser(to_close) ==
    [NoYip EXCEPT !.alive = TRUE, !.source = TRUE, !.machine = TRUE,
                  !.to_close = to_close, !.next_return_token = -1]

\* yip_init: ret 1 is a parser, ret 0 is NULL.  more1, more2, more3 give what
\* realloc and the read return in the three source->more calls it makes, and
\* long_bits the width of unsigned long in the build.
yip_init(source, to_close, machine, long_bits, more1, more2, more3) ==
    IF ~machine THEN Done(NoYip, source, 0)
    ELSE The({IF d1.abort THEN Failed(NoYip, d1.s, "dynamic_invariant")
              ELSE IF d1.ret < 0
              THEN GiveUp([NoYip EXCEPT !.encoding = d1.ret, !.alive = TRUE], d1.s, "EILSEQ")
              ELSE The({IF d2.abort THEN Failed(NewParser(to_close), d2.s, "dynamic_invariant")
                        ELSE InitParser(NewParser(to_close), d2, more3[1], more3[2])
                        : d2 \in {detect_encoding(
                                     source_more(FALSE, d1.s, 4, more2[1], more2[2]), long_bits)}})
              : d1 \in {detect_encoding(source_more(FALSE, source, 4, more1[1], more1[2]), long_bits)}})

\* next_token that returns the staged tokens from the top of the stack down.
next_token_from_top(y, s) ==
    Asserting(y, s, depth_of(y.frames) = 1 /\ y.next_return_token >= 0, "next_token",
        IF y.tokens[depth_of(y.tokens) - y.next_return_token].code = YIP_DONE
        THEN Done(y, s, depth_of(y.tokens) - y.next_return_token)
        ELSE Returning([y EXCEPT !.next_return_token = @ + 1], s,
                       depth_of(y.tokens) - y.next_return_token))

\* next_token that moves the index on after the DONE token too.
next_token_moves_past_done(y, s) ==
    Asserting(y, s, depth_of(y.frames) = 1 /\ y.next_return_token >= 0, "next_token",
        Returning([y EXCEPT !.next_return_token = @ + 1], s, y.next_return_token + 1))

\* next_token: ret is the depth in the token stack of the token returned.
next_token(y, s) ==
    Asserting(y, s, depth_of(y.frames) = 1 /\ y.next_return_token >= 0, "next_token",
        IF y.tokens[y.next_return_token + 1].code = YIP_DONE
        THEN Done(y, s, y.next_return_token + 1)
        ELSE Returning([y EXCEPT !.next_return_token = @ + 1], s, y.next_return_token + 1))

last_token(y, s) ==
    Asserting(y, s, depth_of(y.frames) = 1, "last_token",
        LET y1 == [y EXCEPT !.next_return_token = -1, !.tokens = SubSeq(@, 1, 1)]
        IN  Returning(SetToken(y1, TokenAtCurr(y1, Code(y1))), s, 0))

(***************************************************************************)
(* The production machine.  The machines are generated code (functions.i)  *)
(* that calls the runtime above; here a machine is any sequence of runtime *)
(* calls that keeps the discipline of the productions: it opens and closes *)
(* groups in nested order, collects characters into one token at a time,   *)
(* backtracks to a pushed state only with all tokens ended, reports DONE   *)
(* at the end of the input with every group closed, and returns            *)
(* RETURN_ERROR when the runtime fails.  It takes characters into a token  *)
(* it has begun, at least one into each, or, when it has reported an       *)
(* error, skips characters into the working token and ends that as         *)
(* UNPARSED.  It reports a character that is no character where it meets   *)
(* it, and other errors a bounded number of times.  Its control state is   *)
(* the groups it has open, the groups open at each pushed state, whether   *)
(* it is skipping, how many errors it has reported, and how many more      *)
(* times it may open a group, push a state or end a token                 *)
(* short of the characters it could take.                                  *)
(***************************************************************************)
MaxBody == 2
MaxOpen == 2
MaxFrames == 2
MaxFuel == 2
MaxErrors == 1

NoMach == [open |-> << >>, saved |-> << >>, skipping |-> FALSE, reported |-> 0, fuel |-> 0]
NoHist == << >>

\* The group a production opens inside 0, 1, ... open groups.
GroupCodes == <<YIP_BEGIN_NODE, YIP_BEGIN_ESCAPE, YIP_BEGIN_NODE>>
TokenCodes == {YIP_TEXT, YIP_BOM}

Spend(m) == [m EXCEPT !.fuel = @ - 1]

\* The token as its receiver sees it: its fields and the bytes of its buffer.
Delivered(y, s, token) ==
    [code |-> token.code, byte_offset |-> token.byte_offset,
     char_offset |-> token.char_offset, line |-> token.line,
     line_char |-> token.line_char, encoding |-> token.encoding,
     size |-> size_of(token), bytes |-> BytesAt(y, s, token.begin, token.end)]

\* The end of yip_next_token, given what the machine returned: token is the
\* depth of the token returned, 0 for NULL.
yip_next_token_return(r) ==
    IF r.abort # "" THEN [r EXCEPT !.ret = 0]
    ELSE IF r.ret = RETURN_ERROR THEN [r EXCEPT !.ret = 0]
    ELSE IF r.ret = RETURN_TOKEN THEN next_token(r.y, r.s)
    ELSE Failed(r.y, r.s, "yip_next_token")

\* What the caller and the machine see after a runtime call with result r
\* that leaves the machine in m and, if it returns, yip_next_token with n.
After(op, r, m, n) ==
    LET returns == r.abort # "" \/ r.ret # RETURN_DONE
    IN  /\ yip' = n.y
        /\ src' = n.s
        /\ mach' = m
        /\ call' = [op |-> op, ret |-> r.ret, abort |-> n.abort]
        /\ hist' = IF returns /\ n.abort = "" /\ n.ret > 0
                   THEN Append(hist, Delivered(n.y, n.s, n.y.tokens[n.ret]))
                   ELSE hist
        /\ pc' = IF n.abort # "" THEN "aborted"
                 ELSE IF ~returns THEN "machine"
                 ELSE IF n.ret = 0 THEN "failed"
                 ELSE IF n.y.tokens[n.ret].code = YIP_DONE THEN "done"
                 ELSE "idle"
        /\ errno' = IF r.err # "" THEN r.err ELSE errno
        /\ UNCHANGED input

\* The runtime call op of a machine has the given result and leaves the machine
\* in m: the machine goes on, or returns and yip_next_token returns.
Called(op, result, m) ==
    \E r \in {result} :
    \E n \in {IF r.abort # "" \/ r.ret # RETURN_DONE THEN yip_next_token_return(r) ELSE r} :
        After(op, r, m, n)

InToken == depth_of(yip.codes) > 1
AtRest == size_of(Token(yip)) = 0 /\ Token(yip).code = YIP_UNPARSED /\ ~mach.skipping

\* What realloc and the read may return in a more(size) call on source s while
\* the parser is made: of the short reads, the read of one byte.
MoreOutcomes(s, size) ==
    ReallocOutcomes(s, size)
    \X (ReadOutcomes(s, size) \cap {-1, 0, 1, Min(size, Remaining(s))})

\* The same in a call the machine makes: the read returns -1 or reads all there
\* is.
MachineMoreOutcomes(s, size) ==
    ReallocOutcomes(s, size)
    \X (ReadOutcomes(s, size) \cap {-1, Min(size, Remaining(s))})

MBeginToken ==
    /\ pc = "machine" /\ ~InToken /\ ~mach.skipping
    /\ \E code \in TokenCodes :
          /\ Curr(yip).code >= 0
          /\ code = YIP_BOM => Curr(yip).code = 65279
          /\ Called("begin_token", begin_token(yip, src, code), mach)

MNextChar ==
    /\ pc = "machine"
    /\ Curr(yip).code # EOF
    /\ IF InToken THEN Curr(yip).code >= 0
       ELSE mach.skipping
    /\ Code(yip) = YIP_BOM => size_of(Token(yip)) = 0
    /\ \E more \in MachineMoreOutcomes(src, DYNAMIC_BUFFER_SIZE) :
          Called("next_char", next_char(yip, src, more[1], more[2]), mach)

\* Ending a token short of the characters it could take is a choice the machine
\* makes a bounded number of times.
MEndToken ==
    /\ pc = "machine"
    /\ IF InToken THEN size_of(Token(yip)) > 0 /\ (Curr(yip).code >= 0 => mach.fuel > 0)
       ELSE mach.skipping /\ (size_of(Token(yip)) > 0 \/ Curr(yip).code = EOF)
    /\ \E code \in {Token(yip).code, YIP_UNPARSED} :
          Called("end_token", end_token(yip, src, code),
                 [mach EXCEPT !.skipping = FALSE,
                              !.fuel = IF InToken /\ Curr(yip).code >= 0 THEN @ - 1 ELSE @])

MBeginGroup ==
    /\ pc = "machine" /\ ~InToken /\ ~mach.skipping
    /\ mach.fuel > 0 /\ Len(mach.open) < MaxOpen
    /\ LET code == GroupCodes[Len(mach.open) + 1]
       IN  Called("empty_token", empty_token(yip, src, code),
                  Spend([mach EXCEPT !.open = Append(@, code)]))

MEndGroup ==
    /\ pc = "machine" /\ ~InToken /\ ~mach.skipping /\ mach.open # << >>
    /\ Called("empty_token",
              empty_token(yip, src, yip_code_pair(mach.open[Len(mach.open)])),
              [mach EXCEPT !.open = stack_pop(@)])

MUnexpected ==
    /\ pc = "machine" /\ ~InToken /\ ~mach.skipping
    /\ mach.reported < MaxErrors \/ Curr(yip).code = INVALID_CODE
    /\ Called("unexpected", unexpected(yip, src),
              [mach EXCEPT !.reported = Min(@ + 1, MaxErrors), !.skipping = TRUE])

MPushState ==
    /\ pc = "machine" /\ AtRest /\ mach.fuel > 0 /\ depth_of(yip.frames) < MaxFrames
    /\ Called("push_state", push_state(yip, src),
              Spend([mach EXCEPT !.saved = Append(@, mach.open)]))

MSetState ==
    /\ pc = "machine" /\ AtRest /\ depth_of(yip.frames) > 1
    /\ ~is_same_state(yip)
    /\ Called("set_state", set_state(yip, src),
              [mach EXCEPT !.saved[Len(mach.saved)] = mach.open])

MResetState ==
    /\ pc = "machine" /\ AtRest /\ depth_of(yip.frames) > 1
    /\ ~is_same_state(yip) \/ mach.open # mach.saved[Len(mach.saved)]
    /\ Called("reset_state", reset_state(yip, src),
              [mach EXCEPT !.open = mach.saved[Len(mach.saved)]])

MPopState ==
    /\ pc = "machine" /\ AtRest /\ depth_of(yip.frames) > 1
    /\ Called("pop_state", pop_state(yip, src), [mach EXCEPT !.saved = stack_pop(@)])

MDone ==
    /\ pc = "machine" /\ ~InToken /\ depth_of(yip.frames) = 1
    /\ Curr(yip).code = EOF /\ mach.open = << >>
    /\ Called("empty_token", empty_token(yip, src, YIP_DONE),
              [mach EXCEPT !.skipping = FALSE])

(***************************************************************************)
(* The parser specification: a caller that makes a source over the input,  *)
(* makes a parser of it with yip_test, calls yip_next_token until it       *)
(* returns the DONE token or NULL, and closes the parser (run_test_file).  *)
(***************************************************************************)
Prefixes == {<< >>, <<239, 187, 191>>, <<255, 254>>}
Alphabet == {97, 169}
Inputs == {prefix \o body : prefix \in Prefixes, body \in SeqsUpTo(Alphabet, MaxBody)}

\* The longest input that is parsed from a file descriptor.
MaxStream == 3

\* The sources the caller parses from: a memory range, for a short input also a
\* file descriptor that is read, and for no bytes also the range from NULL to
\* NULL.
ParserSourcesOver(bytes) ==
    {yip_buffer_source(bytes, MemAddr)}
    \cup (IF Len(bytes) <= MaxStream THEN {yip_fd_read_source} ELSE {})
    \cup (IF bytes = << >> THEN {yip_buffer_source(bytes, NULL)} ELSE {})

Init ==
    /\ input \in Inputs
    /\ src \in ParserSourcesOver(input)
    /\ errno = ""
    /\ call = [op |-> "new", ret |-> 0, abort |-> ""]
    /\ pc = "new"
    /\ yip = NoYip
    /\ mach = NoMach
    /\ hist = NoHist

\* The source after a more(size) call with the given outcome.
AfterMore(s, size, more) == source_more(FALSE, s, size, more[1], more[2]).s

\* yip_test of a production that exists: yip_init with its machine.
yip_test(source, to_close, long_bits, more1, more2, more3) ==
    yip_init(source, to_close, TRUE, long_bits, more1, more2, more3)

\* The caller makes the parser; with to_close the parser owns the source.
YipTestWith(to_close) ==
    /\ pc = "new"
    /\ \E long_bits \in LongBits, more1 \in MoreOutcomes(src, 4) :
       \E more2 \in MoreOutcomes(AfterMore(src, 4, more1), 4) :
       \E more3 \in MoreOutcomes(AfterMore(AfterMore(src, 4, more1), 4, more2),
                                 DYNAMIC_BUFFER_SIZE) :
       \E r \in {yip_test(src, to_close, long_bits, more1, more2, more3)} :
              /\ yip' = r.y
              /\ src' = r.s
              /\ call' = [op |-> "yip_test", ret |-> r.ret, abort |-> r.abort]
              /\ pc' = IF r.abort # "" THEN "aborted"
                       ELSE IF r.ret = 0 THEN "no_parser"
                       ELSE "idle"
              /\ mach' = [NoMach EXCEPT !.fuel = MaxFuel]
              /\ errno' = IF r.err # "" THEN r.err ELSE errno
              /\ UNCHANGED <<input, hist>>

YipTest == YipTestWith(TRUE)

\* yip_next_token up to the call of the machine: it returns a staged token, or
\* lets the machine run.
YipNextToken ==
    /\ pc = "idle"
    /\ \E staged \in {0 <= yip.next_return_token
                        /\ yip.next_return_token < depth_of(yip.tokens)} :
       \E r \in {IF ~yip_invariant(yip, src)
                 THEN Failed(yip, src, yip_invariant_failure(yip, src))
                 ELSE IF yip.next_return_token >= depth_of(yip.tokens)
                 THEN last_token(yip, src)
                 ELSE IF staged THEN next_token(yip, src)
                 ELSE Done(yip, src, 0)} :
           /\ yip' = r.y
           /\ src' = r.s
           /\ call' = [op |-> "yip_next_token", ret |-> r.ret, abort |-> r.abort]
           /\ hist' = IF staged /\ r.abort = ""
                      THEN Append(hist, Delivered(r.y, r.s, r.y.tokens[r.ret]))
                      ELSE hist
           /\ pc' = IF r.abort # "" THEN "aborted"
                    ELSE IF ~staged THEN "machine"
                    ELSE IF r.y.tokens[r.ret].code = YIP_DONE THEN "done"
                    ELSE "idle"
           /\ UNCHANGED <<input, errno, mach>>

YipClose ==
    /\ pc \in {"done", "failed"}
    /\ \E r \in {yip_close(yip, src)} :
           /\ yip' = r.y
           /\ src' = r.s
           /\ call' = [op |-> "yip_close", ret |-> r.ret, abort |-> r.abort]
           /\ pc' = IF r.abort # "" THEN "aborted" ELSE "closed"
           /\ errno' = IF r.err # "" THEN r.err ELSE errno
           /\ UNCHANGED <<input, mach, hist>>

Next ==
    \/ YipTest
    \/ YipNextToken
    \/ MBeginToken
    \/ MNextChar
    \/ MEndToken
    \/ MBeginGroup
    \/ MEndGroup
    \/ MUnexpected
    \/ MPushState
    \/ MSetState
    \/ MResetState
    \/ MPopState
    \/ MDone
    \/ YipClose

Spec == Init /\ [][Next]_vars

(***************************************************************************)
(* The byte-source specification: a caller that makes any sequence of      *)
(* more, less and close calls on one source, with any argument.  After a   *)
(* more that failed for a reason other than its arguments (the read or the *)
(* reallocation failed) the caller only closes the source, as test_src.c   *)
(* does (it dies) and as the documentation of close allows ("safe to       *)
(* invoke even if an error occured").                                      *)
(***************************************************************************)
SrcAlphabet == {0, 97}

SrcInputs == SeqsUpTo(SrcAlphabet, MaxInput)

MoreSizes == {-1, 0, 1, 2, DYNAMIC_BUFFER_SIZE}
LessSizes == -1 .. (MaxInput + 1)

SourcesOver(bytes) ==
    {yip_buffer_source(bytes, MemAddr), yip_string_source(bytes \o <<0>>, MemAddr),
     yip_fp_source, yip_fd_read_source}
    \cup (IF bytes = << >> THEN {yip_buffer_source(bytes, NULL)}
          ELSE {yip_fd_map_source(bytes, MapAddr)})

NoCall == [op |-> "new", isnull |-> FALSE, size |-> 0, ret |-> 0, err |-> "",
           failed |-> FALSE, before |-> NewSource("buffer")]

InitSource ==
    /\ input \in SrcInputs
    /\ src \in SourcesOver(input)
    /\ errno = ""
    /\ call = NoCall
    /\ pc = "source"
    /\ yip = NoYip
    /\ mach = NoMach
    /\ hist = NoHist

\* The caller after a call has returned r.  As test_source does, it writes out
\* the bytes it releases with less: hist is what it has written.
Returned(op, isnull, size, failed, r) ==
    /\ src' = r.s
    /\ errno' = IF r.err = "" THEN errno ELSE r.err
    /\ call' = [op |-> op, isnull |-> isnull, size |-> size, ret |-> r.ret,
                err |-> r.err, failed |-> failed, before |-> src]
    /\ pc' = IF r.abort THEN "aborted"
             ELSE IF r.ret < 0 /\ r.err # "EINVAL" THEN "source_failed"
             ELSE pc
    /\ hist' = IF op = "less" /\ ~r.abort /\ r.ret > 0
               THEN hist \o SubSeq(WindowBytes(src), 1, r.ret)
               ELSE hist
    /\ UNCHANGED <<input, yip, mach>>

SrcMore ==
    /\ pc = "source" /\ src.alive
    /\ \E isnull \in BOOLEAN, size \in MoreSizes :
       \E newbase \in ReallocOutcomes(src, size), rd \in ReadOutcomes(src, size) :
          Returned("more", isnull, size, ReadFailed(src, size, rd),
                   source_more(isnull, src, size, newbase, rd))

SrcLess ==
    /\ pc = "source" /\ src.alive
    /\ \E isnull \in BOOLEAN, size \in LessSizes :
          Returned("less", isnull, size, FALSE, source_less(isnull, src, size))

SrcClose ==
    /\ pc \in {"source", "source_failed"} /\ src.alive
    /\ \E isnull \in BOOLEAN :
          Returned("close", isnull, 0, FALSE, source_close(isnull, src))

NextSource == SrcMore \/ SrcLess \/ SrcClose

SpecSource == InitSource /\ [][NextSource]_vars


(***************************************************************************)
(* The decoder specification: a caller that decodes one character from    *)
(* the bytes of the input with yip_decode, in any of the five encodings,   *)
(* and a caller that runs detect_encoding on a source over the input, once *)
(* or, as yip_init does, twice.                                            *)
(***************************************************************************)
MaxTail == 5
MaxUnits == 4
MaxSample == 2

\* First bytes of every class of yip_decode_utf8, and bytes that are and are
\* not continuations.
Utf8Leaders == {0, 97, 127, 128, 191, 192, 195, 223, 224, 239, 240, 247, 248, 251,
                252, 253, 254, 255}
Utf8Tails == {128, 191, 97}
Utf8Inputs == {<<leader>> \o tail : leader \in Utf8Leaders, tail \in SeqsUpTo(Utf8Tails, MaxTail)}

\* Bytes that make UTF16 units below, in and above both surrogate ranges, and
\* UTF32 characters with every kind of most significant byte.
UnitBytes == {0, 97, 127, 128, 216, 219, 220, 223, 224, 255}
UnitInputs == SeqsUpTo(UnitBytes, MaxUnits)

\* Bytes of the byte-order marks, the zero byte, the byte that stands for a
\* missing byte, and a letter.
DetectBytes == {0, 97, 170, 187, 191, 239, 254, 255}
DetectInputs ==
    SeqsUpTo(DetectBytes, 4)
    \cup {w \o <<b>> : w \in {v \in SeqsUpTo(DetectBytes, 4) : Len(v) = 4}, b \in {0, 97}}

\* The bytes of code point c in an encoding, as an encoder writes them.
Encoded(encoding, c) ==
    CASE encoding = YIP_UTF8 ->
             IF c < 128 THEN <<c>>
             ELSE IF c < 2048 THEN <<192 + (c \div 64), 128 + (c % 64)>>
             ELSE <<224 + (c \div 4096), 128 + ((c \div 64) % 64), 128 + (c % 64)>>
      [] encoding = YIP_UTF16LE -> <<c % 256, c \div 256>>
      [] encoding = YIP_UTF16BE -> <<c \div 256, c % 256>>
      [] encoding = YIP_UTF32LE -> <<c % 256, c \div 256, 0, 0>>
      [] encoding = YIP_UTF32BE -> <<0, 0, c \div 256, c % 256>>

RECURSIVE EncodedString(_, _)
EncodedString(encoding, string) ==
    IF string = << >> THEN << >>
    ELSE Encoded(encoding, Head(string)) \o EncodedString(encoding, Tail(string))

\* Sample strings: they start with an ASCII letter and hold no zero character.
Samples == {<<97>> \o rest : rest \in SeqsUpTo({97, 233, 8364}, MaxSample - 1)}

\* The encodings of the samples, each with and without a byte-order mark.
SampleEncodings ==
    {EncodedString(encoding, (IF bom THEN <<65279>> ELSE << >>) \o string) :
        encoding \in YIP_UTF8 .. YIP_UTF32BE, bom \in BOOLEAN, string \in Samples}

NoDecode == [op |-> "new", encoding |-> 0, ret |-> 0, size |-> 0, window |-> << >>,
             long_bits |-> 0]

InitDecode ==
    /\ input \in Utf8Inputs \cup UnitInputs \cup DetectInputs \cup SampleEncodings
    /\ src \in {yip_buffer_source(input, MemAddr)}
               \cup (IF input \in DetectInputs \cup SampleEncodings
                     THEN {yip_fd_read_source} ELSE {})
    /\ errno = ""
    /\ call = NoDecode
    /\ pc = "decode"
    /\ yip = NoYip
    /\ mach = NoMach
    /\ hist = NoHist

\* yip_decode(encoding, &begin, end) with begin at the first byte of the input
\* and end after its last: size is what begin has advanced by.
Decode ==
    /\ pc = "decode" /\ src.kind = "buffer"
    /\ \E encoding \in YIP_UTF8 .. YIP_UTF32BE :
       \E d \in {yip_decode(encoding, input)} :
          /\ call' = [op |-> "yip_decode", encoding |-> encoding, ret |-> d.code,
                      size |-> d.size, window |-> input, long_bits |-> 0]
          /\ pc' = "decoded"
          /\ UNCHANGED <<input, src, errno, yip, mach, hist>>

\* detect_encoding(source): window is the window of the source after its
\* more(source, 4), and long_bits the width of unsigned long in the build, the
\* same in both calls.
Detect ==
    /\ pc \in {"decode", "detected"} /\ src.alive
    /\ \E long_bits \in IF pc = "decode" THEN LongBits ELSE {call.long_bits} :
       \E newbase \in ReallocOutcomes(src, 4), rd \in ReadOutcomes(src, 4) :
       \E r \in {detect_encoding(source_more(FALSE, src, 4, newbase, rd), long_bits)} :
          /\ src' = r.s
          /\ errno' = IF r.err = "" THEN errno ELSE r.err
          /\ call' = [op |-> "detect_encoding", encoding |-> r.ret, ret |-> r.ret,
                      size |-> 4, window |-> WindowBytes(r.s),
                      long_bits |-> long_bits]
          /\ pc' = IF r.abort THEN "aborted"
                   ELSE IF r.ret < 0 THEN "no_encoding"
                   ELSE IF pc = "decode" THEN "detected"
                   ELSE "detected_again"
          /\ UNCHANGED <<input, yip, mach, hist>>

NextDecode == Decode \/ Detect

SpecDecode == InitDecode /\ [][NextDecode]_vars

(***************************************************************************)
(* The closing specification: the parse of Spec, with a parser that owns   *)
(* its source (to_close) or borrows it, and a caller that at any point     *)
(* between two yip_next_token calls, or after the last, makes up to        *)
(* MaxCloses calls of yip_close and of the close of the source, in any     *)
(* order.  A source and all it owns (wrapper, block, mapping, handle) is   *)
(* released when it stops being alive, and so is a parser with its stacks. *)
(* A close of an object that is not alive reads released memory: the       *)
(* process crashes, or goes on and releases the object again.              *)
(***************************************************************************)
MaxCloses == 2

\* The close calls so far: how many the caller has made of yip_close and of
\* the close of the source, whether one of them broke the rules of the
\* interface (a second close of an object, a close of a source its parser owns
\* or of a source whose parser is not closed yet), whether one read a released
\* object, and whether one released an object again.
CloseLog ==
    IF "misused" \in DOMAIN call THEN call
    ELSE [op |-> "new", ret |-> 0, abort |-> "", parser_closes |-> 0, source_closes |-> 0,
          misused |-> FALSE, stale |-> FALSE, twice |-> FALSE]

MayClose ==
    /\ pc \in {"idle", "done", "failed", "closed"}
    /\ CloseLog.parser_closes + CloseLog.source_closes < MaxCloses

\* What the caller sees of a close call, and what it has done to the objects.
Closed(op, y, s, ret, abort, err, misused, stale, twice) ==
    /\ yip' = y
    /\ src' = s
    /\ errno' = IF err # "" THEN err ELSE errno
    /\ pc' = IF abort # "" THEN "aborted" ELSE "closed"
    /\ call' = [op |-> op, ret |-> ret, abort |-> abort,
                parser_closes |-> CloseLog.parser_closes + (IF op = "yip_close" THEN 1 ELSE 0),
                source_closes |-> CloseLog.source_closes + (IF op = "close" THEN 1 ELSE 0),
                misused |-> CloseLog.misused \/ misused,
                stale |-> CloseLog.stale \/ stale,
                twice |-> CloseLog.twice \/ twice]
    /\ UNCHANGED <<input, mach, hist>>

\* yip_close(yip) by the caller.  It reads the parser, and the source in
\* yip_invariant; with to_close it closes the source.
ParserClose ==
    /\ MayClose
    /\ IF yip.alive /\ src.alive
       THEN \E r \in {yip_close(yip, src)} :
               Closed("yip_close", r.y, r.s, r.ret, r.abort, r.err,
                      CloseLog.parser_closes >= 1, FALSE, FALSE)
       ELSE \E crash \in BOOLEAN :
               Closed("yip_close", [yip EXCEPT !.alive = FALSE], src, 0,
                      IF crash THEN "released" ELSE "", "",
                      CloseLog.parser_closes >= 1, TRUE,
                      ~crash /\ (~yip.alive \/ yip.to_close))

\* source->close(source) by the caller.
SourceClose ==
    /\ MayClose
    /\ \E misused \in {\/ CloseLog.source_closes >= 1
                       \/ yip.to_close
                       \/ CloseLog.parser_closes = 0} :
       IF src.alive
       THEN \E r \in {source_close(FALSE, src)} :
               Closed("close", yip, r.s, r.ret, IF r.abort THEN "source_invariant" ELSE "",
                      r.err, misused, FALSE, FALSE)
       ELSE \E crash \in BOOLEAN :
               Closed("close", yip, src, 0, IF crash THEN "released" ELSE "", "",
                      misused, TRUE, ~crash)

NextClose ==
    \/ \E to_close \in BOOLEAN : YipTestWith(to_close)
    \/ YipNextToken
    \/ MBeginToken
    \/ MNextChar
    \/ MEndToken
    \/ MBeginGroup
    \/ MEndGroup
    \/ MUnexpected
    \/ MPushState
    \/ MSetState
    \/ MResetState
    \/ MPopState
    \/ MDone
    \/ ParserClose
    \/ SourceClose

SpecClose == Init /\ [][NextClose]_vars

(***************************************************************************)
(* Two parsers in one process.  The buffer that unexpected() prints into   *)
(* is a static array of the function, so there is one of it for all the    *)
(* parsers of the process: the field buffer of the parser record is that   *)
(* array.  The first parser is the one of Spec; of the second parser, over *)
(* a source of its own, only what it does to the memory the first one can  *)
(* see is kept: its unexpected() printing into the static array.           *)
(***************************************************************************)
\* The characters the second parser meets that its machine does not expect.
OtherCodes == {98}

\* A yip_next_token of the second parser whose machine calls unexpected() at
\* the character code, between two calls on the first parser.
OtherUnexpected ==
    /\ pc \in {"idle", "done"}
    /\ \E code \in OtherCodes :
        /\ yip.buffer # UnexpectedText(code)
        /\ yip' = [yip EXCEPT !.buffer = UnexpectedText(code)]
    /\ UNCHANGED <<input, src, errno, call, pc, mach, hist>>

NextShared == Next \/ OtherUnexpected

SpecShared == Init /\ [][NextShared]_vars

(***************************************************************************)
(* The cursor specification: a parser over inputs that hold characters of  *)
(* one to four bytes and byte sequences that are no character, whose       *)
(* machine calls next_char up to the end of the input.  The stream of a    *)
(* file descriptor gives each read any number of bytes from one up to what *)
(* is asked for and there is.                                              *)
(***************************************************************************)
MaxCursorLen == 4

\* 'a', the first byte of a character of two bytes and of one of four bytes,
\* and a continuation byte.
CursorAlphabet == {97, 195, 240, 169}

\* U+FFFF and 'a' in UTF8.
LineSeparatorInput == <<239, 191, 191, 97>>

CursorInputs == SeqsUpTo(CursorAlphabet, MaxCursorLen) \cup {LineSeparatorInput}

InitCursor ==
    /\ input \in CursorInputs
    /\ src \in {yip_buffer_source(input, MemAddr), yip_fd_read_source}
    /\ errno = ""
    /\ call = [op |-> "new", ret |-> 0, abort |-> ""]
    /\ pc = "new"
    /\ yip = NoYip
    /\ mach = NoMach
    /\ hist = NoHist

\* The machine calls next_char.
CursorNextChar ==
    /\ pc = "machine"
    /\ Curr(yip).code # EOF
    /\ \E newbase \in ReallocOutcomes(src, DYNAMIC_BUFFER_SIZE),
          rd \in ReadOutcomes(src, DYNAMIC_BUFFER_SIZE) :
          Called("next_char", next_char(yip, src, newbase, rd), mach)

NextCursor == YipTest \/ YipNextToken \/ CursorNextChar

SpecCursor == InitCursor /\ [][NextCursor]_vars

(***************************************************************************)
(* The runtime specification: a machine that makes up to MaxOps calls of   *)
(* the runtime (next_char, next_line, begin_token, end_token, empty_token, *)
(* unexpected, push_state, set_state, reset_state, pop_state) in any order *)
(* and with any argument the assertions of the call allow.  A call made    *)
(* in a state its assertions reject stops the process.  mach.reported      *)
(* counts the calls made and mach.saved holds, for each frame beneath the  *)
(* live one, what push_state or set_state saved there; mach.skipping says   *)
(* that the last reset_state went back over a character and cut the token  *)
(* stack.                                                                  *)
(***************************************************************************)
MaxOps == 5

\* The deepest stack of frames the machine makes.
MaxDepth == 3

RuntimeInputs == {<<97>>, <<97, 98>>}

InitRuntime ==
    /\ input \in RuntimeInputs
    /\ src \in {yip_buffer_source(input, MemAddr), yip_fd_read_source}
    /\ errno = ""
    /\ call = [op |-> "new", ret |-> 0, abort |-> ""]
    /\ pc = "new"
    /\ yip = NoYip
    /\ mach = NoMach
    /\ hist = NoHist

\* A character as a frame holds it, with the place of its bytes in the stream
\* rather than in memory.
CharView(char) ==
    [code |-> char.token.code, byte_offset |-> char.token.byte_offset,
     size |-> size_of(char.token), char_offset |-> char.token.char_offset,
     line |-> char.token.line, line_char |-> char.token.line_char,
     encoding |-> char.token.encoding, mask |-> char.mask]

\* What the frame beneath the live one holds once push_state or set_state has
\* written it in parser y.
SavedState(y) ==
    [curr |-> CharView(Curr_char(y)), prev |-> CharView(Prev_char(y)),
     tokens_depth |-> depth_of(y.tokens), codes_depth |-> depth_of(y.codes)]

Counted(m) == [m EXCEPT !.reported = @ + 1]

MayCall == pc = "machine" /\ mach.reported < MaxOps

RuntimeNextChar ==
    /\ MayCall /\ Curr(yip).code # EOF
    /\ \E more \in MachineMoreOutcomes(src, DYNAMIC_BUFFER_SIZE) :
          Called("next_char", next_char(yip, src, more[1], more[2]), Counted(mach))

RuntimeNextLine ==
    /\ MayCall
    /\ Called("next_line", Done(next_line(yip), src, RETURN_DONE), Counted(mach))

RuntimeBeginToken ==
    /\ MayCall
    /\ \E code \in TokenCodes \cup {YIP_UNPARSED} :
          Called("begin_token", begin_token(yip, src, code), Counted(mach))

RuntimeEndToken ==
    /\ MayCall
    /\ \E code \in {Token(yip).code, YIP_UNPARSED} :
          Called("end_token", end_token(yip, src, code), Counted(mach))

RuntimeEmptyToken ==
    /\ MayCall
    /\ \E code \in {YIP_BEGIN_NODE, YIP_END_NODE, YIP_DONE} :
          Called("empty_token", empty_token(yip, src, code), Counted(mach))

RuntimeUnexpected ==
    /\ MayCall
    /\ Called("unexpected", unexpected(yip, src), Counted(mach))

RuntimePushState ==
    /\ MayCall /\ depth_of(yip.frames) < MaxDepth
    /\ Called("push_state", push_state(yip, src),
              Counted([mach EXCEPT !.saved = Append(@, SavedState(yip))]))

\* set_state is called at the bottom frame too, where its assertion stops the
\* process.
RuntimeSetState ==
    /\ MayCall
    /\ Called("set_state", set_state(yip, src),
              Counted([mach EXCEPT !.saved = IF @ = << >> THEN @
                                             ELSE Append(stack_pop(@), SavedState(yip))]))

RuntimeResetState ==
    /\ MayCall /\ depth_of(yip.frames) > 1
    /\ Called("reset_state", reset_state(yip, src),
              Counted([mach EXCEPT !.skipping =
                  /\ ~is_same_state(yip)
                  /\ depth_of(yip.tokens) > yip.frames[Len(yip.frames) - 1].tokens_depth]))

RuntimePopState ==
    /\ MayCall /\ depth_of(yip.frames) > 1
    /\ Called("pop_state", pop_state(yip, src), Counted([mach EXCEPT !.saved = stack_pop(@)]))

NextRuntime ==
    \/ YipTest
    \/ YipNextToken
    \/ RuntimeNextChar
    \/ RuntimeNextLine
    \/ RuntimeBeginToken
    \/ RuntimeEndToken
    \/ RuntimeEmptyToken
    \/ RuntimeUnexpected
    \/ RuntimePushState
    \/ RuntimeSetState
    \/ RuntimeResetState
    \/ RuntimePopState

SpecRuntime == InitRuntime /\ [][NextRuntime]_vars
(***************************************************************************)
(* The rebase specification: the machine of the runtime specification over *)
(* a stream of three UTF-32BE characters read through an fd_read source.   *)
(* detect_encoding buffers eight bytes in a heap buffer of                 *)
(* DYNAMIC_BUFFER_SIZE, so the first next_char of the machine asks for     *)
(* DYNAMIC_BUFFER_SIZE more, the buffer is reallocated and the rest of the *)
(* stream is appended to it.                                               *)
(***************************************************************************)
RebaseInput == <<0, 0, 0, 97, 0, 0, 0, 98, 0, 0, 0, 99>>

InitRebase ==
    /\ input = RebaseInput
    /\ src = yip_fd_read_source
    /\ errno = ""
    /\ call = [op |-> "new", ret |-> 0, abort |-> ""]
    /\ pc = "new"
    /\ yip = NoYip
    /\ mach = NoMach
    /\ hist = NoHist

SpecRebase == InitRebase /\ [][NextRuntime]_vars

(***************************************************************************)
(* The specification of a caller that goes on calling yip_next_token after *)
(* it has been given the DONE token: the runtime specification with up to  *)
(* MaxDoneCalls further calls.                                             *)
(***************************************************************************)
MaxDoneCalls == 2

\* The DONE tokens the caller has been given.
DoneReturned == Cardinality({i \in 1 .. Len(hist) : hist[i].code = YIP_DONE})

\* yip_next_token called again after it has returned DONE.
YipNextTokenAfterDone ==
    /\ pc = "done" /\ DoneReturned <= MaxDoneCalls
    /\ \E staged \in {0 <= yip.next_return_token
                        /\ yip.next_return_token < depth_of(yip.tokens)} :
       \E r \in {IF ~yip_invariant(yip, src)
                 THEN Failed(yip, src, yip_invariant_failure(yip, src))
                 ELSE IF yip.next_return_token >= depth_of(yip.tokens)
                 THEN last_token(yip, src)
                 ELSE IF staged THEN next_token(yip, src)
                 ELSE Done(yip, src, 0)} :
           /\ yip' = r.y
           /\ src' = r.s
           /\ call' = [op |-> "yip_next_token", ret |-> r.ret, abort |-> r.abort]
           /\ hist' = IF staged /\ r.abort = ""
                      THEN Append(hist, Delivered(r.y, r.s, r.y.tokens[r.ret]))
                      ELSE hist
           /\ pc' = IF r.abort # "" THEN "aborted"
                    ELSE IF ~staged THEN "machine"
                    ELSE IF r.y.tokens[r.ret].code = YIP_DONE THEN "done"
                    ELSE "idle"
           /\ UNCHANGED <<input, errno, mach>>

NextDone == NextRuntime \/ YipNextTokenAfterDone

SpecDone == InitRuntime /\ [][NextDone]_vars

(***************************************************************************)
(* Claims about the byte sources, checked under SpecSource.                *)
(***************************************************************************)
\* The number of bytes the source can ever supply, and those beyond the window end.
SourceLength(s) ==
    CASE IsDynamic(s) -> Len(input)
      [] s.kind = "string" -> strlen(s.mem)
      [] OTHER -> Len(s.mem)

FurtherBytes(s) == SourceLength(s) - end_offset(s)

\* The bytes of the stream at offsets [from, from + n).
StreamBytes(s, from, n) ==
    IF IsDynamic(s) THEN SubSeq(input, from + 1, from + n) ELSE SubSeq(s.mem, from + 1, from + n)

\* A more(size) call that did not fail: valid arguments, no failed read, no
\* failed reallocation.
MoreDidNotFail(least) ==
    /\ call.op = "more" /\ ~call.isnull /\ call.size >= least
    /\ ~call.failed /\ call.ret >= 0

MoreContract ==
    /\ pc # "aborted"
    /\ call.ret = 0 <=> FurtherBytes(call.before) = 0
    /\ call.ret <= call.size
    /\ end_offset(src) = end_offset(call.before) + call.ret
    /\ src.byte_offset = call.before.byte_offset
    /\ WindowBytes(src) = WindowBytes(call.before)
                            \o StreamBytes(src, end_offset(call.before), call.ret)

LessInRange ==
    /\ call.op = "less" /\ ~call.isnull
    /\ 0 <= call.size /\ call.size <= call.before.end - call.before.begin

\* C9: for every backend, less(n) with 0 <= n <= window size returns n, increases
\* byte_offset by exactly n and leaves a window holding the former window's bytes
\* without the first n (the stream offset of the window end is unchanged), also
\* when the stream backend compacts its buffer.
C9_LessContract ==
    LessInRange =>
        /\ pc # "aborted"
        /\ call.ret = call.size
        /\ src.byte_offset = call.before.byte_offset + call.size
        /\ end_offset(src) = end_offset(call.before)
        /\ WindowBytes(src) = SubSeq(WindowBytes(call.before), call.size + 1,
                                     Len(WindowBytes(call.before)))

\* A less on a stream backend that moved the remaining data to the base.
C9_Witness ==
    /\ LessInRange /\ IsDynamic(src) /\ call.size >= 1
    /\ call.before.begin + call.size # src.begin
    /\ src.begin = src.base /\ src.end > src.begin

\* A call with an invalid argument.
InvalidArgument ==
    \/ call.op \in {"more", "less", "close"} /\ call.isnull
    \/ call.op \in {"more", "less"} /\ call.size < 0
    \/ call.op = "less" /\ call.size > call.before.end - call.before.begin

\* C10: more and less with a negative size or a null source, less with a size
\* larger than the window, and close with a null source return a negative value,
\* set errno to EINVAL, and leave the window, byte_offset and backing buffer
\* unchanged.
C10_InvalidArgumentFails ==
    InvalidArgument =>
        /\ pc # "aborted"
        /\ call.ret < 0 /\ call.err = "EINVAL" /\ errno = "EINVAL"
        /\ src = call.before

\* A less larger than a non-empty window, a negative more and a null close.
C10_Witness ==
    /\ call.op = "less" /\ ~call.isnull /\ call.size >= 0
    /\ call.size > call.before.end - call.before.begin
    /\ call.before.end > call.before.begin
    /\ call.ret < 0


\* A more(size) call with valid arguments of at least one byte has returned.
MoreReturned == call.op = "more" /\ ~call.isnull /\ call.size >= 1 /\ pc # "aborted"

\* C12: for every backend and any interleaving of more and less calls with
\* valid sizes, the window holds the bytes of the stream at offsets
\* [byte_offset, byte_offset + window size), and when a more (of at least one
\* byte) returns 0, the bytes written out at each less followed by the window
\* are the input (for the string backend, the input up to its first zero).
C12_WrittenBytesAreTheInput ==
    /\ (src.alive /\ pc # "aborted") =>
          WindowBytes(src) = StreamBytes(src, src.byte_offset, size_of(src))
    /\ (MoreReturned /\ call.ret = 0) =>
          hist \o WindowBytes(src) = StreamBytes(src, 0, SourceLength(src))

\* C13: when the read of a more call fails, more returns a negative value, for
\* the backend that reads a FILE and the backend that reads a descriptor.
C13_ReadFailureIsNegative ==
    (MoreReturned /\ IsDynamic(call.before) /\ call.failed) => call.ret < 0

(***************************************************************************)
(* Properties of the delivered token stream.  hist is the stream the       *)
(* caller has been given so far.                                           *)
(***************************************************************************)
DoneDelivered == hist # << >> /\ hist[Len(hist)].code = YIP_DONE

IsMatch(token) == yip_code_type(token.code) = YIP_MATCH

\* What stands for the groups open after a stream that is not nested.
NotNested == <<-1>>

\* The Begin codes of the groups open after the tokens of stream h, innermost
\* last.
RECURSIVE OpenGroups(_)
OpenGroups(h) ==
    IF h = << >> THEN << >>
    ELSE The({IF before = NotNested THEN NotNested
              ELSE IF yip_code_type(code) = YIP_BEGIN THEN Append(before, code)
              ELSE IF yip_code_type(code) = YIP_END
              THEN IF before # << >> /\ yip_code_pair(before[Len(before)]) = code
                   THEN stack_pop(before)
                   ELSE NotNested
              ELSE before
              : before \in {OpenGroups(SubSeq(h, 1, Len(h) - 1))},
                code \in {h[Len(h)].code}})

\* C1: in the stream delivered so far every End token closes the innermost
\* open group and is the yip_code_pair of its Begin token, and when DONE is
\* delivered no group is open, whatever the input.
C1_PairBalance ==
    /\ OpenGroups(hist) # NotNested
    /\ DoneDelivered => OpenGroups(hist) = << >>

\* C1: a parse of malformed input has delivered nested groups, an error and DONE.
C1_Witness ==
    /\ pc = "done"
    /\ \E i \in 1 .. Len(hist) : hist[i].code = YIP_ERROR
    /\ \E i, j \in 1 .. Len(hist) :
          /\ i < j
          /\ hist[i].code = YIP_BEGIN_NODE
          /\ hist[j].code = YIP_BEGIN_ESCAPE
          /\ \A k \in i .. j : hist[k].code # YIP_END_NODE

\* C2 as the specification states it: a parse that has ended, by DONE or by
\* yip_next_token returning NULL, has delivered DONE.
C2_EveryParseDeliversDone == pc \in {"done", "failed", "closed"} => DoneDelivered

\* C2: DONE is delivered only as the last token of the stream, with no token
\* staged after it, and only by a parse in which no source call failed; a
\* parse in which a source more failed ends with yip_next_token returning NULL
\* and errno set, and delivers no DONE.
C2_DoneOrNull ==
    /\ \A i \in 1 .. Len(hist) : hist[i].code = YIP_DONE => i = Len(hist)
    /\ pc = "done" => DoneDelivered /\ yip.next_return_token + 1 = depth_of(yip.tokens)
    /\ pc = "failed" => ~DoneDelivered /\ call.ret = RETURN_ERROR /\ errno # ""
    /\ DoneDelivered => errno = ""
    /\ errno # "" => pc \in {"failed", "aborted"}

\* C2: a source more has failed in next_char after tokens were delivered, and
\* yip_next_token has returned NULL.
C2_Witness == pc = "failed" /\ call.op = "next_char" /\ hist # << >>

\* The bytes of the Match tokens of stream h, in order.
RECURSIVE MatchBytes(_)
MatchBytes(h) ==
    IF h = << >> THEN << >>
    ELSE MatchBytes(SubSeq(h, 1, Len(h) - 1))
         \o (IF IsMatch(h[Len(h)]) THEN h[Len(h)].bytes ELSE << >>)

\* C3 as the specification states it: when DONE is delivered the buffers of
\* the Match tokens, in delivery order, make up the whole input.
C3_MatchTokensAreTheInput == DoneDelivered => MatchBytes(hist) = input

\* The byte offset at which the token after token begins: after the bytes of a
\* Match token, after the character a BOM token stands for, and where a token
\* of another kind is.
OffsetAfter(token) ==
    IF IsMatch(token) THEN token.byte_offset + token.size
    ELSE IF token.code = YIP_BOM
    THEN token.byte_offset
         + yip_decode(yip.encoding, SubSeq(input, token.byte_offset + 1, Len(input))).size
    ELSE token.byte_offset

\* C3: the Match tokens and the characters the BOM tokens stand for tile the
\* input: the stream begins at offset 0, each token begins where the one
\* before it ends, the buffer of a Match token holds the input bytes at its
\* offset, and DONE is at the end of the input.  The bytes of a byte-order
\* mark are in no Match token: its token is Fake and holds the encoding name.
C3_TokensTileInput ==
    /\ hist # << >> => hist[1].byte_offset = 0
    /\ \A i \in 1 .. Len(hist) - 1 : hist[i + 1].byte_offset = OffsetAfter(hist[i])
    /\ \A i \in 1 .. Len(hist) :
          /\ IsMatch(hist[i]) =>
                hist[i].bytes = SubSeq(input, hist[i].byte_offset + 1,
                                       hist[i].byte_offset + hist[i].size)
          /\ hist[i].code = YIP_BOM => ~IsMatch(hist[i]) /\ hist[i].bytes # << >>
    /\ DoneDelivered => hist[Len(hist)].byte_offset = Len(input)

\* C3: a parse has delivered a BOM token, a token of text, an UNPARSED token of
\* skipped bytes, and DONE.
C3_Witness ==
    /\ pc = "done"
    /\ \E i \in 1 .. Len(hist) : hist[i].code = YIP_BOM
    /\ \E i \in 1 .. Len(hist) : hist[i].code = YIP_TEXT /\ hist[i].size > 0
    /\ \E i \in 1 .. Len(hist) : hist[i].code = YIP_UNPARSED /\ hist[i].size > 0

\* C4 as the specification states it: byte_offset never decreases from a token
\* to the next, and increases unless the earlier token has length zero.
C4_IncreasesUnlessZeroLength ==
    \A i \in 1 .. Len(hist) - 1 :
        /\ hist[i].byte_offset <= hist[i + 1].byte_offset
        /\ hist[i].size > 0 => hist[i].byte_offset < hist[i + 1].byte_offset

\* The token takes bytes of the input: a Match token that is not empty, or a
\* BOM token.
TakesInput(token) == (IsMatch(token) /\ token.size > 0) \/ token.code = YIP_BOM

\* C4: byte_offset never decreases from a token to the next; it increases
\* after a token that takes input and only then: it stays after a Begin or End
\* token and after an Error token, whose length (of its message) is not zero.
C4_OffsetsMonotone ==
    \A i \in 1 .. Len(hist) - 1 :
        /\ hist[i].byte_offset <= hist[i + 1].byte_offset
        /\ hist[i].byte_offset < hist[i + 1].byte_offset <=> TakesInput(hist[i])

\* C4: an Error token has been delivered after a token of text, with a token
\* after it, in a parse that has backtracked.
C4_Witness ==
    /\ \E i \in 2 .. Len(hist) - 1 :
          /\ hist[i].code = YIP_ERROR /\ hist[i].size > 0
          /\ hist[i - 1].size > 0
    /\ mach.fuel < MaxFuel

\* The token at depth i of the stack is as long as the bytes taken into it: the
\* bytes from its byte_offset to that of the token above it in the stack, or
\* to the cursor for the token at the top.
ConsumedInto(y, i) ==
    LET next == IF i = Len(y.tokens) THEN Curr(y).byte_offset
                ELSE y.tokens[i + 1].byte_offset
    IN  size_of(y.tokens[i]) = next - y.tokens[i].byte_offset

\* Every token of the stack that is not Fake is inside the window of the
\* source, at the place its byte_offset says, as long as the bytes taken into
\* it, and in the encoding of the parser.
TokensInWindow(y, s) ==
    \A i \in 1 .. Len(y.tokens) :
        yip_code_type(y.tokens[i].code) # YIP_FAKE =>
            /\ s.begin <= y.tokens[i].begin
            /\ y.tokens[i].begin <= y.tokens[i].end
            /\ y.tokens[i].end <= s.end
            /\ y.tokens[i].byte_offset - s.byte_offset = y.tokens[i].begin - s.begin
            /\ ConsumedInto(y, i)
            /\ y.tokens[i].encoding = y.encoding

RECURSIVE DecodesExactly(_, _)
DecodesExactly(encoding, bytes) ==
    \/ bytes = << >>
    \/ \E d \in {yip_decode(encoding, bytes)} :
          /\ d.code >= 0
          /\ d.size > 0
          /\ DecodesExactly(encoding, SubSeq(bytes, d.size + 1, Len(bytes)))

\* C6, of the Fake tokens with text: the text of every Error token and BOM
\* token delivered decodes, under the encoding the token names, into whole
\* valid characters.
C6_TextDecodesInOwnEncoding ==
    \A i \in 1 .. Len(hist) :
        hist[i].code \in {YIP_ERROR, YIP_BOM} =>
            DecodesExactly(hist[i].encoding, hist[i].bytes)

\* The block of a source that is read has been moved by realloc.
Relocated == IsDynamic(src) /\ src.base \in HeapAddrs /\ src.base # 100000

\* C7: after a source more (none has failed) has relocated the window, the
\* program has not stopped and every invariant of the parser holds.
C7_RelocationKeepsInvariants ==
    (Relocated /\ errno = "" /\ yip.alive) => pc # "aborted" /\ yip_invariant(yip, src)

\* The name yip_encoding_name returns for the encoding of the parser.
EncodingName == encoding_names[yip.encoding + 1]

\* The token is where a byte-order mark is in the input.
AtByteOrderMark(token) ==
    /\ yip_decode(yip.encoding, SubSeq(input, token.byte_offset + 1, Len(input))).code = 65279
    /\ token.byte_offset = 0 /\ token.char_offset = 0
    /\ token.line = 1 /\ token.line_char = 0

Decoding(encodings) == call.op = "yip_decode" /\ call.encoding \in encodings

AllEncodings == YIP_UTF8 .. YIP_UTF32BE

\* C14: for each of the five decoders and every range that is not empty, begin
\* advances by at least one byte and never beyond end, whether a character or
\* INVALID_CODE is returned; on an empty range the decoder returns INVALID_CODE
\* and leaves begin where it was.
C14_CursorAdvances ==
    Decoding(AllEncodings) =>
        /\ call.size <= Len(input)
        /\ input # << >> => call.size >= 1
        /\ input = << >> => call.ret = INVALID_CODE /\ call.size = 0

\* C14: a decoder has returned INVALID_CODE after taking more than one byte
\* and fewer than all of them.
C14_Witness ==
    /\ Decoding(AllEncodings) /\ call.ret = INVALID_CODE
    /\ 1 < call.size /\ call.size < Len(input)

\* C15: every decoder returns, for every input, a character that is not
\* negative or INVALID_CODE, and no other negative value.
C15_ScalarOrInvalid ==
    Decoding(AllEncodings) => call.ret >= 0 \/ call.ret = INVALID_CODE

\* The number of continuation bytes the first byte of a UTF8 character asks
\* for, and -1 for a byte that begins no character (10xxxxxx, 0xFE, 0xFF).
Utf8Continuations(leader) ==
    IF leader <= 127 THEN 0
    ELSE IF leader <= 191 THEN -1
    ELSE IF leader <= 223 THEN 1
    ELSE IF leader <= 239 THEN 2
    ELSE IF leader <= 247 THEN 3
    ELSE IF leader <= 251 THEN 4
    ELSE IF leader <= 253 THEN 5
    ELSE -1

\* The bits of the character in its first byte.
Utf8LeaderBits(leader) ==
    leader - <<0, 192, 224, 240, 248, 252>>[Utf8Continuations(leader) + 1]

\* The character made of the given bits followed by six bits of each of the
\* bytes b[from] .. b[to].
RECURSIVE Utf8Scalar(_, _, _, _)
Utf8Scalar(bits, b, from, to) ==
    IF from > to THEN bits
    ELSE Utf8Scalar(bits * 64 + (b[from] - 128), b, from + 1, to)

\* What the classical layout of 1 to 6 bytes gives for the bytes b.
Utf8Expected(b) ==
    LET n == Utf8Continuations(b[1])
    IN  IF n < 0 THEN INVALID_CODE
        ELSE IF \E i \in 2 .. n + 1 : i > Len(b) \/ b[i] < 128 \/ b[i] > 191
        THEN INVALID_CODE
        ELSE Utf8Scalar(Utf8LeaderBits(b[1]), b, 2, n + 1)

\* C16: yip_decode_utf8 returns the character of the classical 1 to 6 byte
\* layout, over-long encodings included, and INVALID_CODE exactly when the
\* first byte begins no character, a continuation byte is missing, or a
\* continuation byte is not 10xxxxxx.
C16_Utf8Layout ==
    (Decoding({YIP_UTF8}) /\ input # << >>) => call.ret = Utf8Expected(input)

\* C16: the over-long encoding C0 80 of the character 0 has been decoded.
C16_Witness ==
    /\ Decoding({YIP_UTF8}) /\ Len(input) >= 2
    /\ input[1] = 192 /\ input[2] = 128 /\ call.size = 2 /\ call.ret = 0

\* The UTF16 unit of the input at bytes i and i + 1, in the byte order of the
\* encoding of the call.
UnitAt(i) ==
    IF call.encoding = YIP_UTF16LE THEN input[i] + 256 * input[i + 1]
    ELSE 256 * input[i] + input[i + 1]

\* C17: for both byte orders, a first unit below 0xD800 or from 0xE000 on is
\* returned as it is after 2 bytes; a first unit in [0xDC00, 0xE000) gives
\* INVALID_CODE; a first unit hi in [0xD800, 0xDC00) followed by a unit lo in
\* [0xDC00, 0xE000) gives 0x10000 + ((hi - 0xD800) << 10) + (lo - 0xDC00), in
\* [0x10000, 0x10FFFF], after 4 bytes; with the second unit missing or out of
\* range it gives INVALID_CODE.
C17_Utf16Units ==
    (Decoding({YIP_UTF16LE, YIP_UTF16BE}) /\ Len(input) >= 2) =>
        LET hi == UnitAt(1)
        IN  IF hi < 55296 \/ hi >= 57344 THEN call.ret = hi /\ call.size = 2
            ELSE IF hi >= 56320 THEN call.ret = INVALID_CODE
            ELSE IF Len(input) >= 4 /\ UnitAt(3) \in 56320 .. 57343
            THEN /\ call.ret = 65536 + (hi - 55296) * 1024 + (UnitAt(3) - 56320)
                 /\ call.ret \in 65536 .. 1114111
                 /\ call.size = 4
            ELSE call.ret = INVALID_CODE

\* C17: a surrogate pair has been decoded in each byte order.
C17_Witness ==
    /\ Decoding({YIP_UTF16LE, YIP_UTF16BE})
    /\ call.size = 4 /\ call.ret >= 65536

\* C18: for each encoding and every sample string, with or without a
\* byte-order mark, detection on the bytes of the encoded string gives the
\* encoding.
C18_DetectionRoundTrip ==
    (call.op = "detect_encoding" /\ src.kind = "buffer") =>
        \A encoding \in AllEncodings, bom \in BOOLEAN, string \in Samples :
            input = EncodedString(encoding, (IF bom THEN <<65279>> ELSE << >>) \o string)
                => call.ret = encoding

\* The first four bytes of the window w, a missing byte read as 0xAA.
FirstFour(w) == [i \in 1 .. 4 |-> IF i <= Len(w) THEN w[i] ELSE 170]

\* The encoding the byte-order mark at the start of the four bytes p names,
\* and -1 when there is none.
BomEncoding(p) ==
    IF p = <<0, 0, 254, 255>> THEN YIP_UTF32BE
    ELSE IF p = <<255, 254, 0, 0>> THEN YIP_UTF32LE
    ELSE IF <<p[1], p[2]>> = <<254, 255>> THEN YIP_UTF16BE
    ELSE IF <<p[1], p[2]>> = <<255, 254>> THEN YIP_UTF16LE
    ELSE IF <<p[1], p[2], p[3]>> = <<239, 187, 191>> THEN YIP_UTF8
    ELSE -1

\* One of the first two bytes is zero: every zero-byte rule needs that.
ZeroPattern(p) == p[1] = 0 \/ p[2] = 0

\* C19: what detect_encoding returns is decided by the first four bytes of the
\* window after its more(4), a missing byte read as 0xAA: a byte-order mark
\* decides it (FE FF is UTF-16BE, FF FE is UTF-16LE, 00 00 FE FF is UTF-32BE,
\* FF FE 00 00 is UTF-32LE, EF BB BF is UTF-8), and without a byte-order mark
\* and without a zero byte in the first two bytes, so also for the empty
\* input, it is UTF-8.
C19_BomDecides ==
    (call.op = "detect_encoding" /\ call.ret >= 0) =>
        LET p == FirstFour(call.window)
        IN  /\ BomEncoding(p) # -1 => call.ret = BomEncoding(p)
            /\ (BomEncoding(p) = -1 /\ ~ZeroPattern(p)) => call.ret = YIP_UTF8

(***************************************************************************)
(* The claim about closing, checked under SpecClose.                       *)
(***************************************************************************)
\* C11 as the specification states it: over any sequence of close calls, no
\* resource is released more than once and no released object is accessed.
C11_CloseIsIdempotent ==
    "misused" \in DOMAIN call => ~call.stale /\ ~call.twice

\* C11: when every parser and every source is closed at most once, a source
\* its parser owns only by yip_close and a borrowed source only after its
\* parser, no resource is released more than once and no released object is
\* accessed, also when the close follows an error return of yip_next_token;
\* and a resource is released again only by a close that reads a released
\* object.
C11_ClosedOnceReleasedOnce ==
    "misused" \in DOMAIN call =>
        /\ ~call.misused => ~call.stale /\ ~call.twice
        /\ call.twice => call.stale
        /\ (~call.misused /\ call.abort = "") =>
              /\ call.parser_closes = 1 => ~yip.alive
              /\ (call.source_closes = 1 \/ yip.to_close) => ~src.alive

\* C11: the caller has closed a parser that borrowed its source and then the
\* source, each once, and both are released.
C11_Witness ==
    /\ "misused" \in DOMAIN call /\ ~call.misused /\ pc = "closed"
    /\ call.parser_closes = 1 /\ call.source_closes = 1
    /\ ~yip.alive /\ ~src.alive /\ ~yip.to_close

(***************************************************************************)
(* Claims about the runtime of the parser.                                 *)
(***************************************************************************)
\* The token yip_next_token returned last, as its receiver sees it now.
ReturnedTokenNow(entry) ==
    \E i \in 1 .. Len(yip.tokens) : Delivered(yip, src, yip.tokens[i]) = entry

\* C21: whatever another parser of the process does between two calls on this
\* parser, the token this parser returned last (an Error token and its message
\* included) reads as it did when it was returned, until the next call on this
\* parser.
C21_PayloadKeptUntilNextCall ==
    (pc = "idle" /\ hist # << >>) => ReturnedTokenNow(hist[Len(hist)])

\* C22: a yip_close that follows a yip_next_token which returned NULL because
\* the more of its next_char failed runs to its end: it violates no assertion,
\* and the parser and the source it owns are released.
C22_CloseAfterFailedRead ==
    (call.op = "yip_close" /\ errno # "") =>
        /\ pc = "closed"
        /\ ~yip.alive
        /\ ~src.alive

\* C23: when the construction of a parser that is to own its source fails
\* (errno is set), yip_test returns NULL without violating an assertion, and the source has
\* been closed.
C23_FailedConstructionCloses ==
    (call.op = "yip_test" /\ errno # "") => (pc = "no_parser" /\ ~src.alive)

\* C24: over an input of zero bytes (a window with begin = end, the one of
\* yip_buffer_source(NULL, NULL) included) yip_test makes a parser without
\* violating an assertion, with the cursor at the end of the input.
C24_EmptyInputParser ==
    (call.op = "yip_test" /\ input = << >> /\ errno = "") =>
        /\ pc = "idle"
        /\ Curr(yip).code = EOF
        /\ yip.did_see_eof

\* The cursor has moved on from the character that is now the previous one.
MovedOn == yip.frames # << >> /\ Prev(yip).code # NO_CODE

\* The bytes of the input that the previous character covers.
PrevBytes ==
    SubSeq(input, Prev(yip).byte_offset + 1, Prev(yip).byte_offset + size_of(Prev(yip)))

\* The bytes of the input from the previous character on.
FromPrev == SubSeq(input, Prev(yip).byte_offset + 1, Len(input))

\* C25: when the character at the cursor is an invalid byte sequence, the next
\* next_char places the cursor after all the bytes the decoder consumed for it:
\* at least one byte, and every byte up to and including the one at which the
\* decoder gave up (with the whole input in the window, what the decoder
\* consumes of the input from that character on).
C25_ResyncPastConsumed ==
    (MovedOn /\ Prev(yip).code = INVALID_CODE) =>
        /\ size_of(Prev(yip)) >= 1
        /\ Curr(yip).begin = Prev(yip).end
        /\ Curr(yip).byte_offset = Prev(yip).byte_offset + size_of(Prev(yip))
        /\ yip_decode(yip.encoding, PrevBytes) = Decoded(INVALID_CODE, size_of(Prev(yip)))
        /\ src.kind = "buffer" =>
               yip_decode(yip.encoding, FromPrev) = Decoded(INVALID_CODE, size_of(Prev(yip)))

\* C25: the cursor has moved on from an invalid sequence of more than one
\* byte: the first byte of a character and a byte that is no continuation.
C25_Witness ==
    /\ MovedOn /\ Prev(yip).code = INVALID_CODE /\ size_of(Prev(yip)) = 2
    /\ Curr(yip).byte_offset = Prev(yip).byte_offset + 2
    /\ call.op = "next_char" /\ pc = "machine"

\* C25: when the character at the cursor is an invalid byte sequence, the next
\* next_char places the cursor one byte after the first byte of the sequence.
C25_ResyncOneByte ==
    (MovedOn /\ Prev(yip).code = INVALID_CODE) =>
        Curr(yip).byte_offset = Prev(yip).byte_offset + 1

\* The bytes of the input from the cursor on.
FromCurr == SubSeq(input, Curr(yip).byte_offset + 1, Len(input))

\* C26: the character at the cursor is INVALID_CODE only when the bytes of the
\* input from the cursor on begin with no validly encoded character, whatever
\* number of bytes each more call returned.
C26_ValidCharacterDecodes ==
    (yip.frames # << >> /\ size_of(Curr(yip)) > 0 /\ Curr(yip).code = INVALID_CODE) =>
        yip_decode(yip.encoding, FromCurr).code = INVALID_CODE

\* The previous character passes the start of line on: it carries the bit and
\* its code is negative (the NO_CODE before the first character, INVALID_CODE)
\* or 0xFFFF.
PassesStartOfLine ==
    /\ Prev_char(yip).mask % 2 = START_OF_LINE_MASK
    /\ Prev(yip).code < 0 \/ Prev(yip).code = 65535

\* next_char has just returned 0 with a new character at the cursor.
AfterNextChar ==
    /\ call.op \in {"yip_test", "next_char"} /\ call.abort = "" /\ call.ret >= 0
    /\ yip.frames # << >>
    /\ pc \in {"idle", "machine"}

\* C27: after next_char the new current character carries the start-of-line
\* bit exactly when the previous character carried it and has a negative code
\* (NO_CODE before the first character, INVALID_CODE) or the code 0xFFFF; the
\* first character of the stream is start-of-line, and a character that
\* follows a character of any other code is not.
C27_StartOfLinePassedOn ==
    AfterNextChar =>
        /\ Curr_char(yip).mask % 2 = START_OF_LINE_MASK <=> PassesStartOfLine
        /\ Curr(yip).char_offset = 0 => Curr_char(yip).mask % 2 = START_OF_LINE_MASK
        /\ (Prev(yip).code >= 0 /\ Prev(yip).code # 65535) => Curr_char(yip).mask % 2 = 0

\* C27: the character 'a' that follows an invalid byte sequence at the start
\* of the stream is start-of-line.
C27_Witness ==
    /\ AfterNextChar /\ call.op = "next_char"
    /\ Curr(yip).code = 97 /\ Curr_char(yip).mask % 2 = START_OF_LINE_MASK
    /\ Prev(yip).code = INVALID_CODE

\* C27: after next_char the new current character carries the start-of-line
\* bit exactly when the previous character carried it and was an end-of-input
\* sentinel (EOF, or NO_CODE before the first character) or the code 0xFFFF.
C27_StartOfLineAfterSentinel ==
    AfterNextChar =>
        (Curr_char(yip).mask % 2 = START_OF_LINE_MASK <=>
            /\ Prev_char(yip).mask % 2 = START_OF_LINE_MASK
            /\ Prev(yip).code \in {EOF, NO_CODE, 65535})

\* C28: in every state of the parser, after any sequence of runtime calls and
\* token deliveries, the end of the working token is the begin of the current
\* character unless the working token is a Fake token.
C28_TokenEndsAtCursor ==
    (yip.alive /\ yip.tokens # << >> /\ yip.frames # << >>
        /\ yip_code_type(Token(yip).code) # YIP_FAKE) =>
        Token(yip).end = Curr(yip).begin

\* C28: the working token holds a character and the cursor has moved past it
\* inside a pushed state.
C28_Witness ==
    /\ pc = "machine" /\ call.op = "next_char" /\ call.abort = ""
    /\ depth_of(yip.frames) > 1
    /\ size_of(Token(yip)) > 0 /\ Token(yip).code = YIP_TEXT
    /\ Token(yip).end = Curr(yip).begin

\* reset_state has just returned.
AfterReset == call.op = "reset_state" /\ call.abort = "" /\ pc = "machine"

\* What the last push_state or set_state saved in the frame beneath.
Saved == mach.saved[Len(mach.saved)]

\* C29: after any sequence of runtime calls that follows a push_state, a
\* reset_state restores the current and the previous character of the live
\* frame to the saved ones, cuts the token stack and the code stack to the
\* saved depths, and leaves an empty working token at the restored cursor with
\* the code UNPARSED.
C29_ResetRestores ==
    AfterReset =>
        /\ CharView(Curr_char(yip)) = Saved.curr
        /\ CharView(Prev_char(yip)) = Saved.prev
        /\ depth_of(yip.tokens) = Saved.tokens_depth
        /\ depth_of(yip.codes) = Saved.codes_depth
        /\ Token(yip) = TokenAtCurr(yip, YIP_UNPARSED)
        /\ size_of(Token(yip)) = 0
        /\ Frame(yip).tokens_depth = -1 /\ Frame(yip).codes_depth = -1
        /\ depth_of(yip.frames) = Len(mach.saved) + 1

\* C29: reset_state has gone back over a character and a token collected
\* since the push_state.
C29_Witness ==
    /\ AfterReset /\ mach.skipping
    /\ depth_of(yip.tokens) = 1 /\ Curr(yip).byte_offset = 0 /\ hist = << >>

\* set_state has just returned.
AfterSetState == call.op = "set_state" /\ call.abort = ""

\* The frame beneath the live one.
Beneath == yip.frames[Len(yip.frames) - 1]

\* C30: set_state copies the characters of the live frame into the frame
\* beneath and records there the depths of the token and code stacks, and the
\* depth of the frame stack stays as it is; it is never executed at the bottom
\* frame, releases no token for delivery and returns done.
C30_SetStateSaves ==
    AfterSetState =>
        /\ depth_of(yip.frames) > 1
        /\ depth_of(yip.frames) = Len(mach.saved) + 1
        /\ Beneath.curr = Curr_char(yip) /\ Beneath.prev = Prev_char(yip)
        /\ Beneath.tokens_depth = depth_of(yip.tokens)
        /\ Beneath.codes_depth = depth_of(yip.codes)
        /\ SavedState(yip) = Saved
        /\ call.ret = RETURN_DONE /\ pc = "machine"
        /\ yip.next_return_token = -1

\* C30: set_state has saved a cursor that has moved on since the push_state,
\* with a token collected in between.
C30_Witness ==
    /\ AfterSetState /\ pc = "machine"
    /\ Curr(yip).byte_offset > 0 /\ depth_of(yip.tokens) > 1
    /\ Beneath.curr = Curr_char(yip)

\* C30: a set_state executed at the bottom frame runs to its end: with
\* collected tokens pending it returns that it produced a token and stages the
\* tokens for delivery from index 0, and with none pending it returns done.
C30_SetStateReleasesAtBottom ==
    (call.op = "set_state" /\ Len(mach.saved) = 0) =>
        /\ call.abort = ""
        /\ call.ret = RETURN_TOKEN => yip.next_return_token = 0
        /\ call.ret = RETURN_DONE => depth_of(yip.tokens) = 1

(***************************************************************************)
(* Claims about the delivery of tokens.                                    *)
(***************************************************************************)
\* C31: a token is handed to the caller only when the frame stack has depth 1,
\* and while a backtracking frame is active the next-token index stays
\* negative: begin_token, end_token and fake_token keep the tokens they collect
\* on the token stack, so that reset_state discards only tokens that were never
\* delivered.
C31_DeliveredAtDepthOne ==
    [][/\ hist' # hist => (depth_of(yip'.frames) = 1 /\ yip'.next_return_token >= 0)
       /\ depth_of(yip'.frames) > 1 => yip'.next_return_token < 0]_vars

\* C31: inside a pushed state a token and an empty token have been collected on
\* the token stack and nothing has been delivered.
C31_Witness ==
    /\ pc = "machine" /\ depth_of(yip.frames) > 1
    /\ depth_of(yip.tokens) > 2 /\ yip.next_return_token < 0
    /\ hist = << >>

\* Tokens are staged and not all of them have been returned.
Staged(y) == 0 <= y.next_return_token /\ y.next_return_token < depth_of(y.tokens)

\* The staged token the next yip_next_token returns.
NextStaged(y) == y.tokens[y.next_return_token + 1]

\* The step is a yip_next_token that returns the next staged token of the
\* state it starts in, without a call of the machine.
ReturnsNextStaged ==
    /\ hist' = Append(hist, Delivered(yip, src, NextStaged(yip)))
    /\ pc' \in {"idle", "done"}
    /\ yip'.tokens = yip.tokens

\* The step is the machine staging tokens: yip_next_token returns the token
\* at the bottom of the token stack.
ReturnsBottom ==
    /\ hist' = Append(hist, Delivered(yip', src', yip'.tokens[1]))
    /\ yip'.next_return_token = IF yip'.tokens[1].code = YIP_DONE THEN 0 ELSE 1

\* The step is a yip_next_token that finds every staged token returned: the
\* token stack becomes the single empty working token at the cursor and the
\* machine is called.
CallsMachine ==
    /\ hist' = hist
    /\ pc' = "machine"
    /\ yip'.next_return_token = -1
    /\ yip'.tokens = <<TokenAtCurr(yip, Code(yip))>>

\* C32: once tokens are staged, the yip_next_token calls return them one per
\* call from the bottom of the token stack up, without a call of the machine in
\* between, up to a DONE token: the index moves on by one after every token
\* but DONE, which is returned without moving it; when the index has passed the
\* last token the next call makes the token stack the single empty working
\* token at the cursor and calls the machine.
C32_StagedInOrder ==
    [][/\ (pc = "machine" /\ pc' \in {"idle", "done"}) => ReturnsBottom
       /\ (pc = "idle" /\ Staged(yip)) =>
             /\ ReturnsNextStaged
             /\ yip'.next_return_token =
                   IF NextStaged(yip).code = YIP_DONE THEN yip.next_return_token
                   ELSE yip.next_return_token + 1
             /\ pc' = "done" <=> NextStaged(yip).code = YIP_DONE
       /\ (pc = "idle" /\ ~Staged(yip)) => CallsMachine]_vars

\* C32: the second of two staged tokens has been returned by a yip_next_token
\* of its own.
C32_Witness ==
    /\ pc = "idle" /\ call.op = "yip_next_token"
    /\ yip.next_return_token = 2 /\ depth_of(yip.tokens) = 2
    /\ Len(hist) = 2

\* C32: once tokens are staged, the yip_next_token calls return them one per
\* call from the bottom of the token stack up, without a call of the machine in
\* between, each once and none skipped: when a call returns DONE, every token
\* staged has been returned.
C32_NoneSkipped ==
    [][/\ (pc = "machine" /\ pc' \in {"idle", "done"}) => ReturnsBottom
       /\ (pc = "idle" /\ Staged(yip)) => ReturnsNextStaged
       /\ pc' = "done" => yip'.next_return_token + 1 = depth_of(yip'.tokens)]_vars

\* The step is a call of unexpected at frame depth 1 that runs to its end.
UnexpectedAtBottom ==
    /\ pc = "machine" /\ depth_of(yip.frames) = 1
    /\ call'.op = "unexpected" /\ call'.abort = ""

\* The Error token at the cursor of the state the step starts in.
IsErrorAtCurr(token) ==
    /\ token.code = YIP_ERROR
    /\ token.byte_offset = Curr(yip).byte_offset
    /\ token.char_offset = Curr(yip).char_offset
    /\ token.line = Curr(yip).line
    /\ token.line_char = Curr(yip).line_char

\* C33: unexpected at frame depth 1 with a working token that is not empty
\* delivers the token in progress first, with the code UNPARSED, and stages the
\* Error token at the cursor right after it; with an empty working token only
\* the Error token is delivered.
C33_InProgressUnparsed ==
    [][UnexpectedAtBottom =>
             IF size_of(Token(yip)) # 0
             THEN /\ yip'.tokens[1] = [Token(yip) EXCEPT !.code = YIP_UNPARSED]
                  /\ depth_of(yip'.tokens) = 2 /\ IsErrorAtCurr(yip'.tokens[2])
                  /\ hist' = Append(hist, Delivered(yip', src', yip'.tokens[1]))
                  /\ yip'.next_return_token = 1
             ELSE /\ depth_of(yip'.tokens) = 1 /\ IsErrorAtCurr(yip'.tokens[1])
                  /\ hist' = Append(hist, Delivered(yip', src', yip'.tokens[1]))
                  /\ yip'.next_return_token = 1]_vars

(***************************************************************************)
(* The dynamic buffer of the fp and fd_read sources.                       *)
(***************************************************************************)
\* A less(size) call on a dynamic source has returned the size released.
LessReleased ==
    /\ call.op = "less" /\ ~call.isnull /\ call.ret >= 0 /\ pc # "aborted"
    /\ IsDynamic(call.before)

\* The gap in front of the window once this less has released its bytes, and
\* the data that remains in the window.
GapAfterLess == (call.before.begin + call.size) - call.before.base
DataAfterLess == (call.before.end - call.before.begin) - call.size

\* The bytes of the window that the less did not release.
KeptBytes == SubSeq(WindowBytes(call.before), call.size + 1, Len(WindowBytes(call.before)))

\* C34: less on an fp or fd_read source moves the remaining data to the base of
\* the allocation exactly when the gap in front of the window, this less
\* counted, is at least as large as the remaining data, so the range copied
\* from and the range copied to do not overlap; otherwise the data stays where
\* it is.  Either way the window holds the bytes that were not released.
C34_MovesWhenGapFits ==
    LessReleased =>
        /\ WindowBytes(src) = KeptBytes
        /\ src.base = call.before.base
        /\ IF GapAfterLess >= DataAfterLess
           THEN /\ src.begin = src.base /\ src.end = src.base + DataAfterLess
                /\ src.base + DataAfterLess <= call.before.begin + call.size
           ELSE /\ src.begin = call.before.begin + call.size
                /\ src.end = call.before.end

\* C34: a less has moved data that remained to the base of the allocation.
C34_Witness ==
    /\ LessReleased /\ call.size > 0 /\ DataAfterLess > 0
    /\ GapAfterLess >= DataAfterLess
    /\ src.begin = src.base /\ call.before.begin # call.before.base

\* A more(size) call on a dynamic source has returned a count of bytes.
MoreAppended ==
    /\ call.op = "more" /\ ~call.isnull /\ call.ret >= 0 /\ pc = "source"
    /\ IsDynamic(src)

\* C35: while the more and less calls on an fp or fd_read source succeed, the
\* capacity of its heap buffer is a multiple of DYNAMIC_BUFFER_SIZE (zero
\* before the first allocation), base <= window begin <= window end <=
\* base + capacity, and a more(n) appends at most n bytes, into space that
\* lies within the capacity.
C35_WindowWithinCapacity ==
    /\ (pc = "source" /\ IsDynamic(src) /\ src.alive) =>
          /\ src.size % DYNAMIC_BUFFER_SIZE = 0
          /\ src.base = NULL => src.size = 0
          /\ src.base <= src.begin /\ src.begin <= src.end
          /\ src.end <= src.base + src.size
    /\ MoreAppended =>
          /\ call.ret <= call.size
          /\ src.end - src.begin = (call.before.end - call.before.begin) + call.ret
          /\ (src.end - call.ret) + call.size <= src.base + src.size

\* C35: a more has grown a heap buffer of one DYNAMIC_BUFFER_SIZE that held data
\* to two and appended bytes to the window.
C35_Witness ==
    /\ MoreAppended /\ call.ret > 0
    /\ call.before.size = DYNAMIC_BUFFER_SIZE /\ call.before.begin < call.before.end
    /\ src.size = 2 * DYNAMIC_BUFFER_SIZE

(***************************************************************************)
(* Rebasing after the heap buffer has moved.                               *)
(***************************************************************************)
\* C36: whenever next_char finds the window begin changed by its more call,
\* the assertions of rebase_invariant hold (the window before was not empty and
\* the window after is strictly larger), whatever the source and whatever the
\* read returned: no call stops in rebase_invariant.
C36_RebasePreconditionsHold == call.abort # "rebase_invariant"

\* A Fake token whose bytes are a text of the program, not bytes of the window.
IsFake(token) ==
    /\ yip_code_type(token.code) = YIP_FAKE
    /\ token.begin < src.begin \/ token.begin > src.end

\* The step is a next_char whose more moved the window while a Fake token was
\* on the token stack.
MovedUnderFake ==
    /\ pc = "machine" /\ call'.op = "next_char"
    /\ src.begin # NULL /\ src'.begin # src.begin
    /\ \E i \in 1 .. Len(yip.tokens) : IsFake(yip.tokens[i])

\* C37: a Fake token on the token stack (an Error token with its message, a
\* BOM token with the name of the encoding) is left as it is when next_char
\* rebases the stacks, and rebasing it fails no assertion.
C37_FakeTokenKeptByRebase ==
    [][MovedUnderFake =>
          /\ call'.abort # "rebase_pointer"
          /\ \A i \in 1 .. Len(yip.tokens) :
                IsFake(yip.tokens[i]) => yip'.tokens[i] = yip.tokens[i]]_vars

(***************************************************************************)
(* After DONE.                                                             *)
(***************************************************************************)
\* C38: DONE is absorbing: once yip_next_token has returned the DONE token,
\* every later yip_next_token returns the same DONE token again, without a
\* call of the machine and without a change of the cursor, the stacks, the
\* index of the next token to return or the source.
C38_DoneIsAbsorbing ==
    [][pc = "done" =>
          /\ call'.op = "yip_next_token" /\ call'.abort = ""
          /\ pc' = "done"
          /\ yip' = yip /\ src' = src /\ mach' = mach
          /\ hist[Len(hist)].code = YIP_DONE
          /\ hist' = Append(hist, hist[Len(hist)])]_vars

\* C38: yip_next_token has returned DONE three times in a row.
C38_Witness ==
    /\ pc = "done" /\ call.op = "yip_next_token"
    /\ Len(hist) >= 3
    /\ \A i \in (Len(hist) - 2) .. Len(hist) : hist[i].code = YIP_DONE

(***************************************************************************)
(* What the parser keeps.                                                  *)
(***************************************************************************)
\* The bytes of the stream before end offset n.
StreamUpTo(n) == SubSeq(input, 1, n)

SavedDepthsInOrder(y, i) ==
    IF i = Len(y.frames)
    THEN y.frames[i].tokens_depth = -1 /\ y.frames[i].codes_depth = -1
    ELSE /\ 0 < y.frames[i].tokens_depth /\ y.frames[i].tokens_depth <= depth_of(y.tokens)
         /\ 0 < y.frames[i].codes_depth /\ y.frames[i].codes_depth <= depth_of(y.codes)

====
